---- MODULE Spec2Model ----
(***************************************************************************)
(* Verification model of the vantage-backend ingestion pipeline:           *)
(*   - BatchProcessor (workers/etl/batchProcessor.ts): buffer, flush       *)
(*     mutex, retry loop, one transaction per batch, sub-batched           *)
(*     statements, delete-and-reinsert of business_names;                  *)
(*   - the ETL worker (workers/etl/etlWorker.ts, and its revision with an  *)
(*     async close-tag handler): chunked SAX parsing, pause/resume,        *)
(*     end-of-input teardown;                                              *)
(*   - the store tables businesses / business_names as the writer sees     *)
(*     them.                                                               *)
(***************************************************************************)
EXTENDS Integers, Sequences, FiniteSets, Bags, TLC

(***************************************************************************)
(* Bounds of the model.                                                    *)
(***************************************************************************)
\* largest configured batchSize explored
MaxBatchSize == 2
\* largest configured retryAttempts explored (0 is explored too)
MaxRetryAttempts == 2
\* number of add() calls an arbitrary caller makes
MaxAdds == 2
\* number of store faults injected in one behaviour
MaxFaults == 1
\* longest document ingested
MaxDocLen == 2
\* number of documents ingested in sequence
MaxRuns == 2
\* number of events a worker thread delivers to its caller
MaxEvents == 4
\* requests one HTTP worker accepts, signals it receives
MaxRequests == 2
MaxSignals == 2
\* workers the primary is configured with, worker exits it sees
MaxWorkers == 3
MaxExits == 4
\* search: length of a term, page number, page size, candidate cap
MaxTermLen == 2
MaxPage == 3
MaxLimit == 2
MaxCap == 2
\* rows per businesses INSERT in the stateful model: a small stand-in for
\* MAX_BUSINESS_ROWS_PER_INSERT so that batches span several statements
SmallBusinessRowsPerInsert == 1
\* rows per business_names INSERT in the stateful model (stand-in for
\* MAX_NAME_ROWS_PER_INSERT)
SmallNameRowsPerInsert == 2

(***************************************************************************)
(* Data.  A Business entity is abstracted to its natural key (abn), one    *)
(* token standing for all other application columns (val) and its list of  *)
(* alternate names (businessNames; one token per {nameType, nameText}).    *)
(***************************************************************************)
Abns == {"X", "Y"}
Vals == {1, 2}
NameLists == {<< >>, <<"A">>, <<"A", "B">>, <<"B", "C">>}
Entities == [abn : Abns, val : Vals, businessNames : NameLists]

\* the records documents are made of
DocEntities ==
    {[abn |-> "X", val |-> 1, businessNames |-> <<"A", "B">>],
     [abn |-> "X", val |-> 2, businessNames |-> <<"B", "C">>],
     [abn |-> "X", val |-> 2, businessNames |-> << >>],
     [abn |-> "Y", val |-> 1, businessNames |-> <<"A">>]}

Docs == UNION {[1..n -> DocEntities] : n \in 1..MaxDocLen}

\* the entities the arbitrary caller of Spec adds
CallerEntities ==
    {[abn |-> "X", val |-> 1, businessNames |-> <<"A", "B">>],
     [abn |-> "X", val |-> 2, businessNames |-> << >>],
     [abn |-> "Y", val |-> 1, businessNames |-> <<"B", "C">>]}

Min(a, b) == IF a <= b THEN a ELSE b

SeqToSet(s) == {s[i] : i \in 1..Len(s)}

\* Array.prototype.slice(i, i + n) with a 0-based start offset i
Slice(s, i, n) == SubSeq(s, i + 1, Min(Len(s), i + n))

RECURSIVE SeqToBag(_)
SeqToBag(s) ==
    IF s = << >> THEN EmptyBag
    ELSE SetToBag({Head(s)}) (+) SeqToBag(Tail(s))

(***************************************************************************)
(* The store.  businesses: abn -> [id, val] (id 0: no row); business_names:*)
(* a bag of [business_id, name] rows; nextId: the id sequence.             *)
(***************************************************************************)
NoRow == [id |-> 0, val |-> 0]

EmptyStore == [biz |-> [a \in Abns |-> NoRow], names |-> EmptyBag, nextId |-> 1]

\* toBusinessRow: the entity's columns without its alternate names
toBusinessRow(entity) == [abn |-> entity.abn, val |-> entity.val]

\* one row of INSERT ... ON CONFLICT (abn) DO UPDATE (merge)
UpsertRow_Replace(s, row) ==
    [s EXCEPT !.biz[row.abn] = [id |-> s.nextId, val |-> row.val],
              !.nextId = s.nextId + 1]

UpsertRow(s, row) ==
    IF s.biz[row.abn].id # 0
    THEN [s EXCEPT !.biz[row.abn].val = row.val]
    ELSE [s EXCEPT !.biz[row.abn] = [id |-> s.nextId, val |-> row.val],
                   !.nextId = s.nextId + 1]

RECURSIVE UpsertRows(_, _)
UpsertRows(s, rows) ==
    IF rows = << >> THEN s
    ELSE UpsertRows(UpsertRow(s, Head(rows)), Tail(rows))

\* PostgreSQL rejects an INSERT ... ON CONFLICT DO UPDATE that proposes the
\* same conflict key twice ("cannot affect row a second time")
UpsertRejected(rows) ==
    \E i, j \in 1..Len(rows) : i < j /\ rows[i].abn = rows[j].abn

\* select id, abn from businesses where abn in (abns)
SelectIds(s, abns) ==
    {[abn |-> a, id |-> s.biz[a].id] : a \in {b \in abns : s.biz[b].id # 0}}

\* delete from business_names where business_id in (ids)
DeleteNames_None(s, ids) == s

DeleteNames(s, ids) ==
    LET keep == {r \in BagToSet(s.names) : r.business_id \notin ids}
    IN  [s EXCEPT !.names = [r \in keep |-> s.names[r]]]

\* insert into business_names values (rows)
InsertNames(s, rows) == [s EXCEPT !.names = s.names (+) SeqToBag(rows)]

\* Store content without surrogate ids: business rows by abn, and the bag of
\* (abn, name) rows obtained by joining business_names to businesses
AbnOfId(s, id) == CHOOSE a \in Abns : s.biz[a].id = id

Content(s) ==
    [rows  |-> {[abn |-> a, val |-> s.biz[a].val] : a \in {b \in Abns : s.biz[b].id # 0}},
     names |-> LET rs == BagToSet(s.names)
               IN  [p \in {[abn |-> AbnOfId(s, r.business_id), name |-> r.name] : r \in rs} |->
                      s.names[[business_id |-> s.biz[p.abn].id, name |-> p.name]]]]

\* the bag of names stored for one abn
StoredNames(s, a) ==
    LET rs == {r \in BagToSet(s.names) : r.business_id = s.biz[a].id}
    IN  [n \in {r.name : r \in rs} |-> s.names[[business_id |-> s.biz[a].id, name |-> n]]]

(***************************************************************************)
(* State.                                                                  *)
(***************************************************************************)
VARIABLES
    \* configuration handed to the worker (workerData)
    batchSize, retryAttempts, flushDelayMs,
    \* BatchProcessor
    buffer,          \* Business[] waiting for the next flush
    totalInserted,
    flushes,         \* flush() calls not yet settled, in call order
    poolClosed,      \* db.destroy() has been called
    \* the store as committed
    db,
    \* bookkeeping of the verification
    log,             \* batches committed so far, in commit order
    faults,          \* store faults injected so far
    adds,            \* add() calls made by the arbitrary caller
    \* a document ingested repeatedly
    doc, pos, runNo, ended,
    \* ETL worker
    evpos,           \* next parser event of doc (2r-1: open of record r, 2r: its close)
    currentRecord,   \* 0: null, r: the raw record of element r is being filled
    flowing,         \* the file stream is flowing (not paused)
    processed,
    messages,        \* messages posted to the parent, in order
    teardown,        \* "parsing", "endFlush", "destroying", "done", "failed", "crashed"
    \* statement sizes of one flush at production scale
    batchRows,       \* batch.length
    namedAbns,       \* distinct abns of the batch that carry names
    nameRowCount,    \* allNames.length
    stmtKind,        \* the statement doFlushWithTrx issues next
    stmtOffset,      \* the loop index i of the insert loops
    stmtBinds,       \* bound values of the statement issued last
    \* the caller of the ETL worker (IngestionService.ingest)
    promise,         \* the promise ingest() returned: state and value
    events,          \* what the worker thread delivered so far, in order
    exited,          \* the worker thread has exited
    \* one HTTP worker process (server.ts, connection.ts)
    listening,       \* the server's listening handle is open
    conns,           \* per request: state of its connection and handler
    begun,           \* requests whose response had begun when a signal came
    signals,         \* SIGTERM / SIGINT delivered so far
    closeCbs,        \* callbacks of server.close() waiting for 'close'
    awaiting,        \* callbacks suspended at await destroyDbConnection()
    instance,        \* the knex pool of connection.ts
    exitCode,        \* "running", or the status process.exit() was given
    \* the primary process of the cluster (server.ts)
    numWorkers,      \* config.cluster.workers || os.cpus().length
    started,         \* the primary has run its fork loop
    live,            \* worker processes alive
    exitEvents,      \* 'exit' events the primary has not handled yet
    forks,           \* cluster.fork() calls so far
    exits,           \* worker exits so far
    crashed,         \* some worker left with a status other than 0
    \* one search request (SearchService, PostgresBusinessRepository)
    table,           \* rows of businesses
    maxCandidates,   \* config.search.maxCandidates
    query,           \* the SearchQuery of the request served last
    baseQuery,       \* the base query the repository built for it
    repoCalls,       \* repository methods the strategy called
    response,        \* what SearchService.search returned or threw
    \* one HTTP request at the Express boundary (controllers, errorHandler)
    httpReq,         \* the request handled last
    passed,          \* the argument the controller passed to the service
    outcome,         \* what the service returned or threw
    httpRes,         \* the response sent
    \* one record at the adapter (XmlDataSourceAdapter)
    rawRecord,       \* the RawAbrRecord normalized last
    normalized,      \* the Business normalize returned for it
    \* one call of PostgresBusinessRepository.bulkUpsert
    repoRows,        \* rows.length of the call
    repoStmts,       \* values bound by each statement the call issued
    repoResult,      \* what the call returned
    \* the SAX handlers of the ETL worker, tag by tag
    xmlDoc,          \* the ABR elements of the file, in document order
    xmlPos,          \* next parser event of the file
    elementStack,
    openRecord,      \* currentRecord: the raw record, live FALSE for null
    currentText,
    currentOtherNameType,
    closedCount,     \* processed
    handed,          \* raw records normalized and passed to add(), in order
    pendingCloses,   \* ABR close handlers suspended at an add() that awaits a flush
    streaming,       \* the file stream is flowing (not paused)
    xmlPhase         \* "parsing", "ended", "crashed"

cfgVars    == <<batchSize, retryAttempts, flushDelayMs>>
writerVars == <<buffer, totalInserted, flushes, poolClosed, db, log, faults>>
ingestVars == <<doc, pos, runNo, ended>>
workerVars == <<evpos, currentRecord, flowing, processed, messages, teardown>>
paramVars  == <<batchRows, namedAbns, nameRowCount, stmtKind, stmtOffset, stmtBinds>>
orchVars   == <<promise, events, exited>>
srvVars    == <<listening, conns, begun, signals, closeCbs, awaiting, instance, exitCode>>
clVars     == <<numWorkers, started, live, exitEvents, forks, exits, crashed>>
qVars      == <<table, maxCandidates, query, baseQuery, repoCalls, response>>
httpVars   == <<httpReq, passed, outcome, httpRes>>
adVars     == <<rawRecord, normalized>>
repoVars   == <<repoRows, repoStmts, repoResult>>
xmlVars    == <<xmlDoc, xmlPos, elementStack, openRecord, currentText, currentOtherNameType,
                closedCount, handed, pendingCloses, streaming, xmlPhase>>
appVars    == <<orchVars, srvVars, clVars, qVars, httpVars, adVars, repoVars, xmlVars>>
etlVars    == <<cfgVars, writerVars, adds, ingestVars, workerVars, paramVars>>
vars == <<etlVars, appVars>>

FlushDelays == {0, 200}

(***************************************************************************)
(* BatchProcessor.flush(): the mutex chain.                                *)
(***************************************************************************)
\* a flush() call that has drained `batch` and waits for / executes its run
NewFlush(batch, caller) ==
    [batch |-> batch, caller |-> caller, st |-> "queued", attempt |-> 0,
     pc |-> "none", i |-> 0, work |-> EmptyStore, snap |-> EmptyStore, idRows |-> {},
     wait |-> 0]

\* `previous` (the flushMutex read by the k-th pending call) is resolved:
\* every earlier call has run its .finally(() => resolveMutex())
PreviousResolved_NoMutex(fs, k) == TRUE

PreviousResolved(fs, k) == k = 1

\* previous.then(() => this.runOneFlush(batch)): runs whose predecessor has
\* settled enter runOneFlush (attempt 1, transaction not yet begun)
StartReady(fs) ==
    [k \in 1..Len(fs) |->
        IF fs[k].st = "queued" /\ PreviousResolved(fs, k)
        THEN [fs[k] EXCEPT !.st = "trx", !.attempt = 1, !.pc = "begin"]
        ELSE fs[k]]

\* if (this.buffer.length >= this.batchSize) await this.flush()
ShouldFlush_Never(len, size) == FALSE

ShouldFlush(len, size) == len >= size

\* flush(): [buffer, flushes, pending]; pending is FALSE when the call
\* resolves without waiting (empty buffer, or a retry loop that never runs)
FlushCall(buf, fs, caller) ==
    IF buf = << >> THEN [buffer |-> buf, flushes |-> fs, pending |-> FALSE]
    ELSE IF retryAttempts < 1
         THEN [buffer |-> << >>, flushes |-> fs, pending |-> FALSE]
    ELSE [buffer |-> << >>,
          flushes |-> StartReady(Append(fs, NewFlush(buf, caller))),
          pending |-> TRUE]

\* add(entity): push, then flush when the threshold is reached
AddCall(buf, fs, entity, caller) ==
    LET pushed == Append(buf, entity)
    IN  IF ShouldFlush(Len(pushed), batchSize)
        THEN FlushCall(pushed, fs, caller)
        ELSE [buffer |-> pushed, flushes |-> fs, pending |-> FALSE]

RemoveAt(s, k) == SubSeq(s, 1, k - 1) \o SubSeq(s, k + 1, Len(s))

\* a run is executing: it has entered runOneFlush and not yet left it
Running(f) == f.st \in {"trx", "backoff", "pacing"}

(***************************************************************************)
(* What the caller of a flush() does when the call settles.                *)
(*   "env": an arbitrary caller, no further effect;                        *)
(*   "rec": the close-tag handler of an ABR element awaiting add();        *)
(*   "end": the parser's end handler awaiting the final flush().           *)
(***************************************************************************)
Notify(caller, ok) ==
    CASE caller = "rec" /\ ok ->
            \* handleRecordClose continues, then finally { fileStream.resume() }
            /\ processed' = processed + 1
            /\ currentRecord' = 0
            /\ flowing' = TRUE
            /\ UNCHANGED <<evpos, messages, teardown, poolClosed>>
      [] caller = "rec" /\ ~ok ->
            \* catch: post "Failed to process ABN ..." and rethrow; finally
            \* resume.  Nothing handles the rejection of the async listener,
            \* which ends the worker thread (Node.js 24)
            /\ messages' = Append(messages, "error")
            /\ flowing' = TRUE
            /\ teardown' = "crashed"
            /\ UNCHANGED <<evpos, currentRecord, processed, poolClosed>>
      [] caller = "end" /\ ok ->
            \* await processor.destroy(): db.destroy() is called
            /\ teardown' = "destroying"
            /\ poolClosed' = TRUE
            /\ UNCHANGED <<evpos, currentRecord, flowing, processed, messages>>
      [] caller = "end" /\ ~ok ->
            /\ messages' = Append(messages, "error")
            /\ teardown' = "failed"
            /\ UNCHANGED <<evpos, currentRecord, flowing, processed, poolClosed>>
      [] OTHER -> UNCHANGED <<workerVars, poolClosed>>

\* .finally(() => resolveMutex()): the mutex is released however the run
\* ended, and the run waiting for it starts
Release_OnSuccess(fs, ok) == IF ok THEN StartReady(fs) ELSE fs

Release(fs, ok) == StartReady(fs)

\* the k-th pending flush() settles: .finally(() => resolveMutex()) lets the
\* next run start, and the awaiting caller continues
Settle(k, ok) ==
    /\ flushes' = Release(RemoveAt(flushes, k), ok)
    /\ Notify(flushes[k].caller, ok)

Keep(k, f) ==
    /\ flushes' = [flushes EXCEPT ![k] = f]
    /\ UNCHANGED <<workerVars, poolClosed>>

(***************************************************************************)
(* runOneFlush / doFlushWithTrx: one store round trip per action.          *)
(***************************************************************************)
\* what other sessions see of a transaction's uncommitted writes
VisibleToOthers_NoTrx(committed, uncommitted) == uncommitted

VisibleToOthers(committed, uncommitted) == committed

businessRowsOf(batch) == [k \in 1..Len(batch) |-> toBusinessRow(batch[k])]

RECURSIVE allNamesOf(_)
allNamesOf(batch) ==
    IF batch = << >> THEN << >>
    ELSE LET entity == Head(batch)
         IN  [k \in 1..Len(entity.businessNames) |->
                 [abn |-> entity.abn, name |-> entity.businessNames[k]]]
             \o allNamesOf(Tail(batch))

IdOf(idRows, abn) == (CHOOSE r \in idRows : r.abn = abn).id

nameRowsOf(batch, idRows) ==
    LET known(n) == \E r \in idRows : r.abn = n.abn
        kept == SelectSeq(allNamesOf(batch), known)
    IN  [k \in 1..Len(kept) |->
            [business_id |-> IdOf(idRows, kept[k].abn), name |-> kept[k].name]]

\* the businesses statement the run is about to issue
NextUpsert(f) == Slice(businessRowsOf(f.batch), f.i, SmallBusinessRowsPerInsert)

\* db.transaction(...): a connection is acquired and BEGIN is issued
TrxBegin(k) ==
    /\ k \in 1..Len(flushes)
    /\ flushes[k].st = "trx" /\ flushes[k].pc = "begin"
    /\ ~poolClosed
    /\ Keep(k, [flushes[k] EXCEPT !.pc = "upsert", !.i = 0, !.work = db, !.snap = db])
    /\ UNCHANGED <<cfgVars, paramVars, appVars, buffer, totalInserted, db, log, faults, adds, ingestVars>>

\* trx('businesses').insert(slice).onConflict('abn').merge()
UpsertStep(k) ==
    /\ k \in 1..Len(flushes)
    /\ flushes[k].st = "trx" /\ flushes[k].pc = "upsert"
    /\ ~UpsertRejected(NextUpsert(flushes[k]))
    /\ LET f == flushes[k]
           w == UpsertRows(f.work, NextUpsert(f))
           j == f.i + SmallBusinessRowsPerInsert
           next == IF j < Len(f.batch) THEN "upsert"
                   ELSE IF Len(allNamesOf(f.batch)) = 0 THEN "commit"
                   ELSE "lookup"
       IN  /\ Keep(k, [f EXCEPT !.work = w, !.i = j, !.pc = next])
           /\ db' = VisibleToOthers(db, w)
    /\ UNCHANGED <<cfgVars, paramVars, appVars, buffer, totalInserted, log, faults, adds, ingestVars>>

\* trx('businesses').select('id', 'abn').whereIn('abn', abns)
LookupStep(k) ==
    /\ k \in 1..Len(flushes)
    /\ flushes[k].st = "trx" /\ flushes[k].pc = "lookup"
    /\ LET f == flushes[k]
           abns == {n.abn : n \in SeqToSet(allNamesOf(f.batch))}
       IN  Keep(k, [f EXCEPT !.idRows = SelectIds(f.work, abns), !.pc = "delete"])
    /\ UNCHANGED <<cfgVars, paramVars, appVars, buffer, totalInserted, db, log, faults, adds, ingestVars>>

\* trx('business_names').whereIn('business_id', businessIds).del()
DeleteStep(k) ==
    /\ k \in 1..Len(flushes)
    /\ flushes[k].st = "trx" /\ flushes[k].pc = "delete"
    /\ LET f == flushes[k]
           w == DeleteNames(f.work, {r.id : r \in f.idRows})
           next == IF Len(nameRowsOf(f.batch, f.idRows)) > 0 THEN "insert" ELSE "commit"
       IN  /\ Keep(k, [f EXCEPT !.work = w, !.i = 0, !.pc = next])
           /\ db' = VisibleToOthers(db, w)
    /\ UNCHANGED <<cfgVars, paramVars, appVars, buffer, totalInserted, log, faults, adds, ingestVars>>

\* trx('business_names').insert(nameRows.slice(i, i + MAX_NAME_ROWS_PER_INSERT))
InsertStep(k) ==
    /\ k \in 1..Len(flushes)
    /\ flushes[k].st = "trx" /\ flushes[k].pc = "insert"
    /\ LET f == flushes[k]
           rows == nameRowsOf(f.batch, f.idRows)
           w == InsertNames(f.work, Slice(rows, f.i, SmallNameRowsPerInsert))
           j == f.i + SmallNameRowsPerInsert
       IN  /\ Keep(k, [f EXCEPT !.work = w, !.i = j,
                                !.pc = IF j < Len(rows) THEN "insert" ELSE "commit"])
           /\ db' = VisibleToOthers(db, w)
    /\ UNCHANGED <<cfgVars, paramVars, appVars, buffer, totalInserted, log, faults, adds, ingestVars>>

\* DEFAULT_ETL_OPTIONS.retryDelayMs
RetryDelayMs == 1000

\* retryDelayMs * Math.pow(2, attempt - 1)
backoffMs(attempt) == RetryDelayMs * 2 ^ (attempt - 1)

\* if (flushDelayMs > 0) await delay(flushDelayMs)
Paces_Never(ms) == FALSE

Paces(ms) == ms > 0

\* this.totalInserted += batch.length
Tally_PerBatch(total, batch) == total + 1

Tally(total, batch) == total + Len(batch)

\* COMMIT succeeds; totalInserted += batch.length; pacing delay if configured
CommitStep(k) ==
    /\ k \in 1..Len(flushes)
    /\ flushes[k].st = "trx" /\ flushes[k].pc = "commit"
    /\ db' = flushes[k].work
    /\ totalInserted' = Tally(totalInserted, flushes[k].batch)
    /\ log' = Append(log, flushes[k].batch)
    /\ IF Paces(flushDelayMs)
       THEN Keep(k, [flushes[k] EXCEPT !.st = "pacing", !.pc = "none",
                                       !.work = EmptyStore, !.snap = EmptyStore,
                                       !.idRows = {}, !.wait = flushDelayMs])
       ELSE Settle(k, TRUE)
    /\ UNCHANGED <<cfgVars, paramVars, appVars, buffer, faults, adds, ingestVars>>

\* await delay(flushDelayMs) is over: runOneFlush returns
PaceDone(k) ==
    /\ k \in 1..Len(flushes)
    /\ flushes[k].st = "pacing"
    /\ Settle(k, TRUE)
    /\ UNCHANGED <<cfgVars, paramVars, appVars, buffer, totalInserted, db, log, faults, adds, ingestVars>>

\* the statement the run waits for cannot succeed: the pool is closed, or
\* the businesses INSERT proposes one abn twice
(***************************************************************************)
(* Store errors.  An error is its code ("none" when the error carries no   *)
(* code) and its message, lower-cased and cut into words (the patterns of  *)
(* isRetryableConnectionError are case-insensitive).                       *)
(***************************************************************************)
ErrTerminated ==
    [code |-> "none", message |-> <<"connection", "terminated", "unexpectedly">>]
ErrCardinality ==
    [code |-> "21000",
     message |-> <<"on", "conflict", "do", "update", "command", "cannot", "affect",
                   "row", "a", "second", "time">>]
ErrAborted ==
    [code |-> "none", message |-> <<"aborted">>]

\* the errors the store raises in the stateful model
StoreErrors == {ErrTerminated, ErrCardinality, ErrAborted}

\* the errors isRetryableConnectionError is evaluated on
ErrorCodes ==
    {"ECONNRESET", "EPIPE", "ETIMEDOUT", "ECONNREFUSED", "57P01", "21000", "23505", "none"}

ErrorMessages ==
    {<<"read", "econnreset">>,
     <<"connection", "terminated", "unexpectedly">>,
     <<"server", "terminated", "unexpectedly">>,
     <<"connection", "closed">>,
     <<"connection", "was", "reset">>,
     <<"reset", "the", "connection">>,
     <<"knex", "timeout", "acquiring", "a", "connection">>,
     <<"the", "pool", "is", "probably", "full">>,
     <<"pool", "is", "full">>,
     <<"duplicate", "key", "value">>,
     <<"aborted">>}

AllErrors == [code : ErrorCodes, message : ErrorMessages]

\* the words p occur in m, adjacent and in this order
HasPhrase(m, p) ==
    \E i \in 1..Len(m) : i + Len(p) - 1 <= Len(m) /\ SubSeq(m, i, i + Len(p) - 1) = p

\* /connection terminated|terminated unexpectedly|connection closed|connection.*reset/i
ConnectionErrorMessage(m) ==
    \/ HasPhrase(m, <<"connection", "terminated">>)
    \/ HasPhrase(m, <<"terminated", "unexpectedly">>)
    \/ HasPhrase(m, <<"connection", "closed">>)
    \/ \E i, j \in 1..Len(m) : i < j /\ m[i] = "connection" /\ m[j] = "reset"

\* /timeout acquiring a connection|pool is probably full/i
PoolTimeoutMessage(m) ==
    \/ HasPhrase(m, <<"timeout", "acquiring", "a", "connection">>)
    \/ HasPhrase(m, <<"pool", "is", "probably", "full">>)

isRetryableConnectionError_Always(err) == TRUE

isRetryableConnectionError(err) ==
    LET connectionErrorCodes ==
            err.code \in {"ECONNRESET", "EPIPE", "ETIMEDOUT", "ECONNREFUSED", "57P01"}
    IN  \/ connectionErrorCodes
        \/ ConnectionErrorMessage(err.message)
        \/ PoolTimeoutMessage(err.message)

MustFail(f) ==
    \/ f.pc = "begin" /\ poolClosed
    \/ f.pc = "upsert" /\ UpsertRejected(NextUpsert(f))

\* the pending statement (BEGIN, a statement, COMMIT) fails; knex rolls the
\* transaction back; the catch of runOneFlush retries or rethrows
FailStep(k, err) ==
    /\ k \in 1..Len(flushes)
    /\ flushes[k].st = "trx"
    /\ MustFail(flushes[k]) \/ faults < MaxFaults
    /\ (flushes[k].pc = "upsert" /\ UpsertRejected(NextUpsert(flushes[k])))
           => err = ErrCardinality
    /\ faults' = IF MustFail(flushes[k]) THEN faults ELSE faults + 1
    /\ IF isRetryableConnectionError(err) /\ flushes[k].attempt # retryAttempts
       THEN Keep(k, [flushes[k] EXCEPT !.st = "backoff", !.pc = "none", !.idRows = {},
                                       !.wait = backoffMs(flushes[k].attempt),
                                       !.work = IF flushes[k].pc = "begin" THEN db ELSE @,
                                       !.snap = IF flushes[k].pc = "begin" THEN db ELSE @])
       ELSE Settle(k, FALSE)
    /\ UNCHANGED <<cfgVars, paramVars, appVars, buffer, totalInserted, db, log, adds, ingestVars>>

\* await delay(backoffMs) is over: the loop makes its next attempt
BackoffDone(k) ==
    /\ k \in 1..Len(flushes)
    /\ flushes[k].st = "backoff"
    /\ Keep(k, [flushes[k] EXCEPT !.st = "trx", !.pc = "begin", !.wait = 0,
                                  !.attempt = flushes[k].attempt + 1])
    /\ UNCHANGED <<cfgVars, paramVars, appVars, buffer, totalInserted, db, log, faults, adds, ingestVars>>

WriterStep ==
    \E k \in 1..MaxAdds + 1 :
        \/ TrxBegin(k)
        \/ UpsertStep(k)
        \/ LookupStep(k)
        \/ DeleteStep(k)
        \/ InsertStep(k)
        \/ CommitStep(k)
        \/ PaceDone(k)
        \/ BackoffDone(k)
        \/ \E err \in StoreErrors : FailStep(k, err)

(***************************************************************************)
(* Specification Spec: one BatchProcessor driven by an arbitrary caller    *)
(* that interleaves add() and flush() calls with the store's progress.     *)
(***************************************************************************)
InitWriter ==
    /\ batchSize \in 1..MaxBatchSize
    /\ retryAttempts \in 0..MaxRetryAttempts
    /\ flushDelayMs \in FlushDelays
    /\ buffer = << >>
    /\ totalInserted = 0
    /\ flushes = << >>
    /\ poolClosed = FALSE
    /\ db = EmptyStore
    /\ log = << >>
    /\ faults = 0

IdleIngest == doc = << >> /\ pos = 1 /\ runNo = 1 /\ ended = << >>

IdleWorker ==
    /\ evpos = 1 /\ currentRecord = 0 /\ flowing = FALSE
    /\ processed = 0 /\ messages = << >> /\ teardown = "parsing"

IdleParams ==
    /\ batchRows = 0 /\ namedAbns = 0 /\ nameRowCount = 0
    /\ stmtKind = "none" /\ stmtOffset = 0 /\ stmtBinds = 0

IdleOrch ==
    /\ promise = [state |-> "pending", value |-> << >>]
    /\ events = << >> /\ exited = FALSE

\* a worker process that listens and has served nothing yet
IdleSrv ==
    /\ listening = TRUE /\ conns = [i \in 1..MaxRequests |-> "none"] /\ begun = {}
    /\ signals = 0 /\ closeCbs = 0 /\ awaiting = 0
    /\ instance = "open" /\ exitCode = "running"

\* a primary process that has not forked yet
IdleCluster ==
    /\ numWorkers = 1 /\ started = FALSE /\ live = 0 /\ exitEvents = << >>
    /\ forks = 0 /\ exits = 0 /\ crashed = FALSE

NoQuery ==
    [hasTerm |-> FALSE, term |-> << >>, technique |-> "undefined", mode |-> "undefined",
     state |-> "", page |-> 1, limit |-> 1]

NoBase == [pred |-> "none", arg |-> << >>, state |-> ""]

\* a repository nobody has queried yet
IdleSearch ==
    /\ table = {} /\ maxCandidates = 1 /\ query = NoQuery /\ baseQuery = NoBase
    /\ repoCalls = << >> /\ response = [kind |-> "none"]

\* an Express app that has handled no request yet
IdleHttp ==
    /\ httpReq = [route |-> "none"] /\ passed = [call |-> "none"]
    /\ outcome = [kind |-> "none"] /\ httpRes = [kind |-> "none"]

\* an adapter that has normalized no record yet
IdleAdapter == rawRecord = [kind |-> "none"] /\ normalized = [kind |-> "none"]

\* a repository whose bulkUpsert has not been called
IdleRepo == repoRows = 0 /\ repoStmts = << >> /\ repoResult = [kind |-> "none"]

\* a parser that has been handed no file
NullRecord == [live |-> FALSE, abn |-> "", mainEntityName |-> "", otherNames |-> << >>]

IdleXml ==
    /\ xmlDoc = << >> /\ xmlPos = 1 /\ elementStack = << >> /\ openRecord = NullRecord
    /\ currentText = "" /\ currentOtherNameType = "" /\ closedCount = 0
    /\ handed = << >> /\ pendingCloses = 0 /\ streaming = FALSE /\ xmlPhase = "parsing"

IdleApp ==
    /\ IdleOrch /\ IdleSrv /\ IdleCluster /\ IdleSearch /\ IdleHttp /\ IdleAdapter /\ IdleRepo
    /\ IdleXml

Init == InitWriter /\ adds = 0 /\ IdleIngest /\ IdleWorker /\ IdleParams /\ IdleApp

\* processor.add(entity) by an arbitrary caller
EnvAdd(entity) ==
    /\ adds < MaxAdds
    /\ adds' = adds + 1
    /\ LET r == AddCall(buffer, flushes, entity, "env")
       IN  buffer' = r.buffer /\ flushes' = r.flushes
    /\ UNCHANGED <<cfgVars, paramVars, appVars, totalInserted, poolClosed, db, log, faults, ingestVars, workerVars>>

\* processor.flush() by an arbitrary caller
EnvFlush ==
    /\ LET r == FlushCall(buffer, flushes, "env")
       IN  buffer' = r.buffer /\ flushes' = r.flushes
    /\ UNCHANGED <<cfgVars, paramVars, appVars, totalInserted, poolClosed, db, log, faults, adds, ingestVars, workerVars>>

Next ==
    \/ \E entity \in CallerEntities : EnvAdd(entity)
    \/ EnvFlush
    \/ WriterStep

Spec == Init /\ [][Next]_vars

(***************************************************************************)
(* End of input and teardown (parser.on('end')), shared by the ingestion   *)
(* specifications.                                                         *)
(***************************************************************************)
\* a transaction of the run holds a pool connection
HoldsConnection(f) == f.st = "trx" /\ f.pc # "begin"

\* await processor.flush(); then processor.destroy() is called
EndCall ==
    LET r == FlushCall(buffer, flushes, "end")
    IN  /\ buffer' = r.buffer
        /\ flushes' = r.flushes
        /\ IF r.pending
           THEN teardown' = "endFlush" /\ UNCHANGED poolClosed
           ELSE teardown' = "destroying" /\ poolClosed' = TRUE

\* db.destroy() resolves once no connection is in use; the end handler
\* posts done
DestroyDone ==
    /\ teardown = "destroying"
    /\ \A k \in 1..Len(flushes) : ~HoldsConnection(flushes[k])
    /\ teardown' = "done"
    /\ messages' = Append(messages, "done")
    /\ ended' = Append(ended, [doc |-> doc, content |-> Content(db)])
    /\ UNCHANGED <<cfgVars, paramVars, appVars, writerVars, adds, doc, pos, runNo,
                   evpos, currentRecord, flowing, processed>>

(***************************************************************************)
(* Specification SpecIngest: MaxRuns documents are ingested in sequence by *)
(* the pipeline whose record handler does not wait for add() (etlWorker.ts,*)
(* handleRecordClose): records reach add() in document order at parser     *)
(* speed while flushes proceed behind the mutex.                           *)
(***************************************************************************)
InitIngest ==
    /\ InitWriter /\ adds = 0 /\ IdleWorker /\ IdleParams /\ IdleApp
    /\ doc \in Docs
    /\ pos = 1 /\ runNo = 1 /\ ended = << >>

\* handleRecordClose: processor.add(entity) for the next record
IngestAdd ==
    /\ teardown = "parsing"
    /\ pos <= Len(doc)
    /\ pos' = pos + 1
    /\ LET r == AddCall(buffer, flushes, doc[pos], "env")
       IN  buffer' = r.buffer /\ flushes' = r.flushes
    /\ UNCHANGED <<cfgVars, paramVars, appVars, totalInserted, poolClosed, db, log, faults, adds,
                   doc, runNo, ended, workerVars>>

\* parser.on('end')
IngestEnd ==
    /\ teardown = "parsing"
    /\ pos = Len(doc) + 1
    /\ EndCall
    /\ UNCHANGED <<cfgVars, paramVars, appVars, totalInserted, db, log, faults, adds, ingestVars,
                   evpos, currentRecord, flowing, processed, messages>>

\* a fresh worker ingests the next document (the same one or another); what
\* the previous worker left pending cannot reach the store any more, its
\* pool is closed
IngestAgain ==
    /\ teardown = "done"
    /\ runNo < MaxRuns
    /\ doc' \in Docs
    /\ runNo' = runNo + 1
    /\ pos' = 1
    /\ buffer' = << >> /\ flushes' = << >> /\ totalInserted' = 0
    /\ poolClosed' = FALSE
    /\ teardown' = "parsing" /\ messages' = << >>
    /\ UNCHANGED <<cfgVars, paramVars, appVars, db, log, faults, adds, ended,
                   evpos, currentRecord, flowing, processed>>

\* the writer's steps when the store itself never fails: an attempt fails
\* only where the program makes it fail (pool closed, statement rejected)
IngestWriterStep ==
    \E k \in 1..MaxDocLen + 1 :
        \/ TrxBegin(k)
        \/ UpsertStep(k)
        \/ LookupStep(k)
        \/ DeleteStep(k)
        \/ InsertStep(k)
        \/ CommitStep(k)
        \/ PaceDone(k)
        \/ BackoffDone(k)
        \/ \E err \in StoreErrors :
              k \in 1..Len(flushes) /\ MustFail(flushes[k]) /\ FailStep(k, err)

NextIngest ==
    \/ IngestAdd
    \/ IngestEnd
    \/ DestroyDone
    \/ IngestAgain
    \/ IngestWriterStep

SpecIngest == InitIngest /\ [][NextIngest]_vars

(***************************************************************************)
(* Specification SpecWorker: one run of the ETL worker whose ABR close     *)
(* handler pauses the file stream, awaits add() and resumes.  The sax      *)
(* stream parses a chunk synchronously: the handlers of all its events     *)
(* run to their first await before any continuation does.                  *)
(***************************************************************************)
\* parser events e .. last of the document, handled synchronously: the open
\* tag of record r is event 2r-1, its close tag event 2r.  p carries
\* currentRecord (cur), the writer's buffer and flush chain, whether pause()
\* was called, and the number of add() calls that returned without a flush
\* to wait for.
RECURSIVE ParseEvents(_, _, _)
ParseEvents(p, e, last) ==
    IF e > last THEN p
    ELSE IF e % 2 = 1
    THEN ParseEvents([p EXCEPT !.cur = (e + 1) \div 2], e + 1, last)
    ELSE IF p.cur = 0
    THEN ParseEvents(p, e + 1, last)
    ELSE LET a == AddCall(p.buffer, p.flushes, doc[p.cur], "rec")
         IN  ParseEvents([p EXCEPT !.buffer = a.buffer,
                                   !.flushes = a.flushes,
                                   !.paused = TRUE,
                                   !.returned = IF a.pending THEN @ ELSE @ + 1],
                         e + 1, last)

InitWorker ==
    /\ InitWriter /\ adds = 0 /\ IdleParams /\ IdleApp
    /\ doc \in Docs
    /\ pos = 1 /\ runNo = 1 /\ ended = << >>
    /\ evpos = 1 /\ currentRecord = 0 /\ flowing = TRUE
    /\ processed = 0 /\ messages = << >> /\ teardown = "parsing"

\* a chunk of n parser events arrives while the stream is flowing; then the
\* continuations of the add() calls that had nothing to wait for run:
\* processed++, currentRecord = null, and fileStream.resume()
Chunk(n) ==
    /\ teardown = "parsing"
    /\ flowing
    /\ evpos + n - 1 <= 2 * Len(doc)
    /\ LET p == ParseEvents([cur |-> currentRecord, buffer |-> buffer, flushes |-> flushes,
                             paused |-> FALSE, returned |-> 0],
                            evpos, evpos + n - 1)
       IN  /\ buffer' = p.buffer
           /\ flushes' = p.flushes
           /\ processed' = processed + p.returned
           /\ currentRecord' = IF p.returned > 0 THEN 0 ELSE p.cur
           /\ flowing' = (p.returned > 0 \/ ~p.paused)
    /\ evpos' = evpos + n
    /\ UNCHANGED <<cfgVars, paramVars, appVars, totalInserted, poolClosed, db, log, faults, adds,
                   ingestVars, messages, teardown>>

\* parser.on('end'): the stream has delivered all its data
WorkerEnd ==
    /\ teardown = "parsing"
    /\ flowing
    /\ evpos = 2 * Len(doc) + 1
    /\ EndCall
    /\ UNCHANGED <<cfgVars, paramVars, appVars, totalInserted, db, log, faults, adds, ingestVars,
                   evpos, currentRecord, flowing, processed, messages>>

NextWorker ==
    \/ \E n \in 1..2 * MaxDocLen : Chunk(n)
    \/ WorkerEnd
    \/ DestroyDone
    \/ teardown # "crashed" /\ WriterStep

SpecWorker == InitWorker /\ [][NextWorker]_vars

(***************************************************************************)
(* Claims settled under Spec.                                              *)
(***************************************************************************)
\* C1 -- Single in-flight flush: at any time at most one pending flush() has
\* entered runOneFlush (transaction, retry backoff or pacing delay); every
\* other pending call is still queued behind the mutex.
C1_SingleInFlightFlush ==
    \A j, k \in 1..Len(flushes) :
        Running(flushes[j]) /\ Running(flushes[k]) => j = k

\* a second flush() was issued while the first run is still in its
\* transaction, and it waits
C1_Witness ==
    /\ Len(flushes) >= 2
    /\ flushes[1].st = "trx" /\ flushes[1].pc = "insert"
    /\ flushes[2].st = "queued"

\* the k-th pending flush is inside an attempt that has begun its transaction,
\* or between two attempts
AttemptOpen(f) ==
    \/ f.st = "trx" /\ f.pc # "begin"
    \/ f.st = "backoff"
    \/ f.st = "trx" /\ f.pc = "begin" /\ f.attempt > 1

\* this step ends an attempt of the k-th pending flush without a commit
AttemptFails(k) ==
    /\ k \in 1..Len(flushes)
    /\ flushes[k].st = "trx" /\ flushes[k].pc # "begin"
    /\ log' = log
    /\ \/ Len(flushes') < Len(flushes)
       \/ flushes'[k].st = "backoff"

\* C2 -- All-or-nothing per batch: while an attempt is open and between the
\* retries of a batch the committed store equals the store as it was when the
\* attempt began, and a step in which an attempt fails (at a business upsert,
\* the id lookup, the name delete, a name insert or the commit) leaves the
\* store equal to that snapshot.
C2_AllOrNothing ==
    /\ [](\A k \in 1..Len(flushes) : AttemptOpen(flushes[k]) => db = flushes[k].snap)
    /\ [][\A k \in 1..MaxAdds + 1 : AttemptFails(k) => db' = flushes[k].snap]_vars

\* an attempt that had already written names in its transaction failed and
\* is waiting to be retried
C2_Witness ==
    \E k \in 1..Len(flushes) :
        /\ flushes[k].st = "backoff"
        /\ flushes[k].work.names # flushes[k].snap.names
        /\ flushes[k].work.biz # flushes[k].snap.biz


\* the failures the retry policy names as transient
TransientCodes == {"ECONNRESET", "EPIPE", "ETIMEDOUT", "ECONNREFUSED", "57P01"}

Transient(err) ==
    \/ err.code \in TransientCodes
    \/ ConnectionErrorMessage(err.message)
    \/ PoolTimeoutMessage(err.message)

\* C12: a failed attempt is followed by another attempt exactly when the
\* failure is a transient connection error and fewer than retryAttempts
\* attempts have been made; otherwise the run ends there and the failure goes
\* to the caller of flush().  No run makes more than retryAttempts attempts,
\* and the errors classified as retryable are the transient ones.
C12_RetryPolicy ==
    /\ [](\A k \in 1..Len(flushes) : flushes[k].attempt <= retryAttempts)
    /\ []((adds = 0 /\ flushes = << >>)
            => \A err \in AllErrors : isRetryableConnectionError(err) = Transient(err))
    /\ [][\A k \in 1..Len(flushes) : \A err \in StoreErrors :
            (/\ flushes[k].st = "trx"
             /\ Len(flushes') < Len(flushes) \/ flushes'[k].st = "backoff"
             /\ FailStep(k, err)) =>
                IF Transient(err) /\ flushes[k].attempt < retryAttempts
                THEN /\ Len(flushes') = Len(flushes)
                     /\ flushes'[k].st = "backoff"
                     /\ flushes'[k].attempt = flushes[k].attempt
                ELSE /\ Len(flushes') = Len(flushes) - 1
                     /\ log' = log]_vars

C12_Witness ==
    \E k \in 1..Len(flushes) :
        /\ flushes[k].st = "trx"
        /\ flushes[k].attempt = 2
        /\ retryAttempts = 2
        /\ faults >= 1

(***************************************************************************)
(* Claims settled under SpecIngest.                                        *)
(***************************************************************************)
\* add() cuts the document into consecutive batches of batchSize records,
\* the final flush takes the rest
RECURSIVE BatchesOf(_, _)
BatchesOf(d, n) ==
    IF d = << >> THEN << >>
    ELSE <<SubSeq(d, 1, Min(n, Len(d)))>> \o BatchesOf(SubSeq(d, n + 1, Len(d)), n)

\* the records, and the batches, of the runs that have ended, in order
RECURSIVE AllRecords(_)
AllRecords(e) == IF e = << >> THEN << >> ELSE e[1].doc \o AllRecords(Tail(e))

RECURSIVE AllBatches(_)
AllBatches(e) ==
    IF e = << >> THEN << >> ELSE BatchesOf(e[1].doc, batchSize) \o AllBatches(Tail(e))

\* the current run has ended and every batch of every run was committed
RunsComplete == teardown = "done" /\ log = AllBatches(ended)

\* the last record of a sequence with the given abn
LastOf(d, a) ==
    LET idx == {i \in 1..Len(d) : d[i].abn = a}
    IN  d[CHOOSE i \in idx : \A j \in idx : j <= i]

AbnsOf(d) == {d[i].abn : i \in 1..Len(d)}

\* the document holds exactly one record of the abn, with these names
Assigns(d, a, names) ==
    /\ Cardinality({i \in 1..Len(d) : d[i].abn = a}) = 1
    /\ LastOf(d, a).businessNames = names

\* the bag of names a store content holds for one abn
NamesIn(content, a) ==
    LET ps == {p \in DOMAIN content.names : p.abn = a}
    IN  [n \in {p.name : p \in ps} |-> content.names[[abn |-> a, name |-> n]]]

\* C3: when the same document is ingested n times in sequence, the store
\* content (business rows, and names joined to their abn) at the end of the
\* n-th run is the content at the end of the first run.
C3_Idempotent ==
    \A n \in 1..Len(ended) :
        (\A k \in 1..n : ended[k].doc = ended[1].doc)
            => ended[n].content = ended[1].content

\* Store-level idempotence: the same holds of the runs all of whose batches
\* were committed.
StoreIdempotent ==
    (RunsComplete /\ \A k \in 1..Len(ended) : ended[k].doc = ended[1].doc)
        => Content(db) = ended[1].content

\* C4: when a document that assigns X the names {A, B} is ingested and then a
\* document that assigns X the names {B, C}, the names stored for X at the
\* end of the second run are exactly B and C, once each (the writer being
\* configured with at least one attempt).
C4_NamesReplaced ==
    retryAttempts >= 1 =>
        \A n \in 2..Len(ended) :
            (/\ Assigns(ended[n - 1].doc, "X", <<"A", "B">>)
             /\ Assigns(ended[n].doc, "X", <<"B", "C">>))
                => NamesIn(ended[n].content, "X") = SeqToBag(<<"B", "C">>)

\* Batch-level replacement: after a batch in which an abn occurs once, with a
\* non-empty name list, is committed, the names stored for the abn are the
\* delivered ones.
CommittedNamesReplaced ==
    log # << >> =>
        LET batch == log[Len(log)]
        IN  \A a \in AbnsOf(batch) :
                (/\ Cardinality({i \in 1..Len(batch) : batch[i].abn = a}) = 1
                 /\ LastOf(batch, a).businessNames # << >>)
                    => StoredNames(db, a) = SeqToBag(LastOf(batch, a).businessNames)

\* C5: after successful flushes the names stored for every business are the
\* name list of the latest record ingested for its abn, the empty list
\* included.
C5_NamesAreLatest ==
    RunsComplete =>
        \A a \in AbnsOf(AllRecords(ended)) :
            StoredNames(db, a) = SeqToBag(LastOf(AllRecords(ended), a).businessNames)

\* C6: when the document holds several records with one abn, the stored row
\* and the stored names of that abn after the run are those of the last such
\* record in document order.
C6_LastRecordWins ==
    RunsComplete =>
        \A a \in AbnsOf(doc) :
            /\ db.biz[a].val = LastOf(doc, a).val
            /\ StoredNames(db, a) = SeqToBag(LastOf(doc, a).businessNames)

(***************************************************************************)
(* Specification SpecParams: the statements of one doFlushWithTrx call at  *)
(* production scale.  Only the sizes matter here: the number of rows of    *)
(* the batch, of distinct abns that carry names, and of name rows.         *)
(***************************************************************************)
PG_MAX_BIND_PARAMS == 65535
BUSINESS_COLS == 14
MAX_BUSINESS_ROWS_BY_PARAMS == (PG_MAX_BIND_PARAMS - 1) \div BUSINESS_COLS
QUICK_INSERT_ROWS == 1000
MAX_BUSINESS_ROWS_PER_INSERT == Min(QUICK_INSERT_ROWS, MAX_BUSINESS_ROWS_BY_PARAMS)
NAME_COLS == 3
MAX_NAME_ROWS_PER_INSERT == (PG_MAX_BIND_PARAMS - 1) \div NAME_COLS

\* batch sizes around the thresholds of the code (ETL_BATCH_SIZE has no upper
\* limit, and the final flush takes whatever is buffered)
RowCounts == {1, 2, 999, 1000, 1001, 4681, 4682, 5000, 21844, 21845, 65534, 65535}

NamesPerAbn == {1, 2, 4}

InitParams ==
    /\ InitWriter /\ batchSize = 1 /\ retryAttempts = 1 /\ flushDelayMs = 0
    /\ adds = 0 /\ IdleIngest /\ IdleWorker /\ IdleApp
    /\ batchRows \in RowCounts
    /\ namedAbns \in {0} \cup {d \in RowCounts : d <= batchRows}
    /\ nameRowCount \in {namedAbns * m : m \in NamesPerAbn}
    /\ stmtKind = "upsert" /\ stmtOffset = 0 /\ stmtBinds = 0

\* trx('businesses').insert(businessRows.slice(i, i + MAX)).onConflict.merge
ParamUpsert ==
    /\ stmtKind = "upsert"
    /\ stmtBinds' = Min(MAX_BUSINESS_ROWS_PER_INSERT, batchRows - stmtOffset) * BUSINESS_COLS
    /\ IF stmtOffset + MAX_BUSINESS_ROWS_PER_INSERT < batchRows
       THEN stmtOffset' = stmtOffset + MAX_BUSINESS_ROWS_PER_INSERT /\ UNCHANGED stmtKind
       ELSE /\ stmtOffset' = 0
            /\ stmtKind' = IF nameRowCount = 0 THEN "returned" ELSE "lookup"
    /\ UNCHANGED <<cfgVars, appVars, writerVars, adds, ingestVars, workerVars,
                   batchRows, namedAbns, nameRowCount>>

\* trx('businesses').select('id', 'abn').whereIn('abn', abns)
ParamLookup ==
    /\ stmtKind = "lookup"
    /\ stmtBinds' = namedAbns
    /\ stmtKind' = "delete"
    /\ UNCHANGED <<cfgVars, appVars, writerVars, adds, ingestVars, workerVars,
                   batchRows, namedAbns, nameRowCount, stmtOffset>>

\* trx('business_names').whereIn('business_id', businessIds).del()
ParamDelete ==
    /\ stmtKind = "delete"
    /\ stmtBinds' = namedAbns
    /\ stmtKind' = "insert"
    /\ UNCHANGED <<cfgVars, appVars, writerVars, adds, ingestVars, workerVars,
                   batchRows, namedAbns, nameRowCount, stmtOffset>>

\* trx('business_names').insert(nameRows.slice(i, i + MAX))
ParamInsert ==
    /\ stmtKind = "insert"
    /\ stmtBinds' = Min(MAX_NAME_ROWS_PER_INSERT, nameRowCount - stmtOffset) * NAME_COLS
    /\ IF stmtOffset + MAX_NAME_ROWS_PER_INSERT < nameRowCount
       THEN stmtOffset' = stmtOffset + MAX_NAME_ROWS_PER_INSERT /\ UNCHANGED stmtKind
       ELSE stmtOffset' = 0 /\ stmtKind' = "returned"
    /\ UNCHANGED <<cfgVars, appVars, writerVars, adds, ingestVars, workerVars,
                   batchRows, namedAbns, nameRowCount>>

NextParams == ParamUpsert \/ ParamLookup \/ ParamDelete \/ ParamInsert

SpecParams == InitParams /\ [][NextParams]_vars

\* C7: no statement of a flush binds 65,535 values or more, whatever the
\* size of the batch: upserts, name inserts, the id lookup and the name
\* delete.
C7_ParamCap == stmtBinds < PG_MAX_BIND_PARAMS

(***************************************************************************)
(* Claims settled under SpecWorker.                                        *)
(***************************************************************************)
PendingAdds == {k \in 1..Len(flushes) : flushes[k].caller = "rec"}

\* the run has still to write its batch
InFlight(f) == f.st \in {"queued", "trx", "backoff"}

C9_Backpressure ==
    /\ Cardinality(PendingAdds) <= 1
    /\ flowing => \A k \in 1..Len(flushes) : ~InFlight(flushes[k])

\* C10: when done is emitted the buffer is empty and no flush run is
\* executing or queued.
C10_DoneAfterFlushes ==
    (\E i \in 1..Len(messages) : messages[i] = "done")
        => buffer = << >> /\ \A k \in 1..Len(flushes) : ~InFlight(flushes[k])

\* C11: the pool is never closed while a flush run is executing or waiting
\* behind the flush mutex.
C11_PoolOpenWhileFlushing ==
    poolClosed => \A k \in 1..Len(flushes) : flushes[k].st # "queued" /\ ~Running(flushes[k])

(***************************************************************************)
(* Specification SpecOrch: IngestionService.ingest() and the events of the *)
(* worker thread it spawned.  An event is its type and one argument: the   *)
(* count of a progress message, the result of done, the text of an error,  *)
(* the exit code.                                                          *)
(***************************************************************************)
WorkerMessages ==
    [type : {"progress"}, arg : {"10000"}]
        \cup [type : {"done"}, arg : {"r1", "r2"}]
        \cup [type : {"error"}, arg : {"m1", "m2"}]

ExitCodes == {"0", "1"}

\* resolve(v) / reject(v) of a promise: only the first call settles it
Resolve_Overwrite(p, v) == [state |-> "resolved", value |-> v]

Resolve(p, v) == IF p.state = "pending" THEN [state |-> "resolved", value |-> v] ELSE p

Reject(p, v) == IF p.state = "pending" THEN [state |-> "rejected", value |-> v] ELSE p

IdleEtl ==
    /\ InitWriter /\ batchSize = 1 /\ retryAttempts = 1 /\ flushDelayMs = 0
    /\ adds = 0 /\ IdleIngest /\ IdleWorker /\ IdleParams

InitOrch == IdleEtl /\ IdleApp

\* worker.on('message')
OnMessage(msg) ==
    /\ ~exited /\ Len(events) < MaxEvents
    /\ events' = Append(events, msg)
    /\ promise' = CASE msg.type = "done" -> Resolve(promise, <<"result", msg.arg>>)
                    [] msg.type = "error" -> Reject(promise, <<"ETL failed", msg.arg>>)
                    [] OTHER -> promise
    /\ UNCHANGED <<etlVars, srvVars, clVars, qVars, httpVars, adVars, repoVars, xmlVars, exited>>

\* worker.on('error'): an uncaught exception of the worker thread
OnThreadError(text) ==
    /\ ~exited /\ Len(events) < MaxEvents
    /\ events' = Append(events, [type |-> "threadError", arg |-> text])
    /\ promise' = Reject(promise, <<"ETL worker crashed", text>>)
    /\ UNCHANGED <<etlVars, srvVars, clVars, qVars, httpVars, adVars, repoVars, xmlVars, exited>>

\* worker.on('exit')
OnExit(code) ==
    /\ ~exited /\ Len(events) < MaxEvents
    /\ events' = Append(events, [type |-> "exit", arg |-> code])
    /\ exited' = TRUE
    /\ promise' = IF code # "0"
                  THEN Reject(promise, <<"ETL worker exited with code", code>>)
                  ELSE promise
    /\ UNCHANGED <<etlVars, srvVars, clVars, qVars, httpVars, adVars, repoVars, xmlVars>>

NextOrch ==
    \/ \E msg \in WorkerMessages : OnMessage(msg)
    \/ OnThreadError("m1")
    \/ \E code \in ExitCodes : OnExit(code)

SpecOrch == InitOrch /\ [][NextOrch]_vars

\* the event settles a pending promise
Settling(e) ==
    e.type \in {"done", "error", "threadError"} \/ (e.type = "exit" /\ e.arg # "0")

\* what the promise must be after the events evs: decided by the first
\* settling event, pending when there is none
Expected(evs) ==
    LET idx == {i \in 1..Len(evs) : Settling(evs[i])}
    IN  IF idx = {} THEN [state |-> "pending", value |-> << >>]
        ELSE LET e == evs[CHOOSE i \in idx : \A j \in idx : i <= j]
             IN  CASE e.type = "done" ->
                        [state |-> "resolved", value |-> <<"result", e.arg>>]
                   [] e.type = "error" ->
                        [state |-> "rejected", value |-> <<"ETL failed", e.arg>>]
                   [] e.type = "threadError" ->
                        [state |-> "rejected", value |-> <<"ETL worker crashed", e.arg>>]
                   [] OTHER ->
                        [state |-> "rejected",
                         value |-> <<"ETL worker exited with code", e.arg>>]

\* C13: the promise of ingest() resolves with the result of the first done
\* when no error came before it, rejects on the first error, rejects on a
\* non-zero exit that neither preceded, is not changed once settled, and is
\* never settled by progress messages.
C13_Settlement == promise = Expected(events)

C13_Witness ==
    /\ promise = [state |-> "resolved", value |-> <<"result", "r1">>]
    /\ \E i, j, k \in 1..Len(events) :
          /\ i < j /\ j < k
          /\ events[i].type = "done"
          /\ events[j] = [type |-> "error", arg |-> "m1"]
          /\ events[k] = [type |-> "exit", arg |-> "1"]

(***************************************************************************)
(* Specification SpecShutdown: one HTTP worker process of server.ts.  A    *)
(* request arrives on a connection of its own; its handler queries the     *)
(* pool, begins the response, ends it, and the connection closes.          *)
(* server.close(cb) closes the listening handle and leaves established     *)
(* connections alone; 'close' is emitted, and cb run, once no connection   *)
(* is left.  A signal that arrives later calls server.close(cb) again: cb  *)
(* is queued for the next 'close'.  process.exit() resets whatever         *)
(* connection is still open.                                               *)
(***************************************************************************)
InFlightConn(c) == c \in {"accepted", "responding"}

\* 'close' of the server: handle closed and no connection left
ServerClosed_NoDrain(l, c) == ~l

ServerClosed(l, c) == ~l /\ \A i \in DOMAIN c : c[i] \in {"none", "closed", "failed"}

\* await instance.destroy() returns
DestroyResolved_Early(p) == TRUE

DestroyResolved(p) == p = "destroyed"

InitShutdown == IdleEtl /\ IdleApp

\* a connection is accepted and its request handed to the Express app
Accept(i) ==
    /\ exitCode = "running" /\ listening /\ conns[i] = "none"
    /\ conns' = [conns EXCEPT ![i] = "accepted"]
    /\ UNCHANGED <<etlVars, orchVars, clVars, qVars, httpVars, adVars, repoVars, xmlVars, listening, begun, signals, closeCbs, awaiting,
                   instance, exitCode>>

\* the handler's query returns and the response begins; a query on a pool
\* that is being destroyed fails
Respond(i) ==
    /\ exitCode = "running" /\ conns[i] = "accepted"
    /\ conns' = [conns EXCEPT ![i] = IF instance = "open" THEN "responding" ELSE "failed"]
    /\ UNCHANGED <<etlVars, orchVars, clVars, qVars, httpVars, adVars, repoVars, xmlVars, listening, begun, signals, closeCbs, awaiting,
                   instance, exitCode>>

\* res.end(): the handler has completed
Complete(i) ==
    /\ exitCode = "running" /\ conns[i] = "responding"
    /\ conns' = [conns EXCEPT ![i] = "idle"]
    /\ UNCHANGED <<etlVars, orchVars, clVars, qVars, httpVars, adVars, repoVars, xmlVars, listening, begun, signals, closeCbs, awaiting,
                   instance, exitCode>>

\* the connection of a finished request ends
ConnEnd(i) ==
    /\ exitCode = "running" /\ conns[i] = "idle"
    /\ conns' = [conns EXCEPT ![i] = "closed"]
    /\ UNCHANGED <<etlVars, orchVars, clVars, qVars, httpVars, adVars, repoVars, xmlVars, listening, begun, signals, closeCbs, awaiting,
                   instance, exitCode>>

\* process.on('SIGTERM' | 'SIGINT'): shutdown(signal) calls server.close(cb)
Signal ==
    /\ exitCode = "running" /\ signals < MaxSignals
    /\ signals' = signals + 1
    /\ listening' = FALSE
    /\ closeCbs' = closeCbs + 1
    /\ begun' = begun \cup {i \in DOMAIN conns : conns[i] = "responding"}
    /\ UNCHANGED <<etlVars, orchVars, clVars, qVars, httpVars, adVars, repoVars, xmlVars, conns, awaiting, instance, exitCode>>

\* 'close' of the server: every queued callback runs up to its await;
\* destroyDbConnection() calls instance.destroy() while instance is set
CloseEvent ==
    /\ exitCode = "running" /\ closeCbs > 0
    /\ ServerClosed(listening, conns)
    /\ awaiting' = awaiting + closeCbs
    /\ closeCbs' = 0
    /\ instance' = IF instance = "open" THEN "destroying" ELSE instance
    /\ UNCHANGED <<etlVars, orchVars, clVars, qVars, httpVars, adVars, repoVars, xmlVars, listening, conns, begun, signals, exitCode>>

\* the pool has closed its connections
PoolDestroyed ==
    /\ exitCode = "running" /\ instance = "destroying"
    /\ instance' = "destroyed"
    /\ UNCHANGED <<etlVars, orchVars, clVars, qVars, httpVars, adVars, repoVars, xmlVars, listening, conns, begun, signals, closeCbs,
                   awaiting, exitCode>>

\* a callback resumes after its await: instance = null, process.exit(0)
ExitStep ==
    /\ exitCode = "running" /\ awaiting > 0
    /\ DestroyResolved(instance)
    /\ exitCode' = "0"
    /\ awaiting' = awaiting - 1
    /\ conns' = [i \in DOMAIN conns |-> IF InFlightConn(conns[i]) THEN "failed" ELSE conns[i]]
    /\ UNCHANGED <<etlVars, orchVars, clVars, qVars, httpVars, adVars, repoVars, xmlVars, listening, begun, signals, closeCbs, instance>>

ShutdownProgress ==
    \/ \E i \in 1..MaxRequests : Respond(i) \/ Complete(i) \/ ConnEnd(i)
    \/ CloseEvent
    \/ PoolDestroyed
    \/ ExitStep

NextShutdown ==
    \/ \E i \in 1..MaxRequests : Accept(i)
    \/ Signal
    \/ ShutdownProgress

\* handlers, the pool and the event loop make progress; signals and
\* requests come as they please
SpecShutdown == InitShutdown /\ [][NextShutdown]_vars /\ WF_vars(ShutdownProgress)

C15_BegunRequestsComplete ==
    /\ \A i \in begun : conns[i] \in {"responding", "idle", "closed"}
    /\ exitCode # "running" => \A i \in begun : conns[i] \in {"idle", "closed"}

C15_Witness ==
    /\ exitCode = "0" /\ signals = MaxSignals
    /\ begun = 1..MaxRequests
    /\ \A i \in begun : conns[i] = "closed"

(***************************************************************************)
(* Specification SpecCluster: the primary process of server.ts.  A worker  *)
(* is a process that is alive until it exits with a status or by a signal; *)
(* the primary hears of it by an 'exit' event.  The primary's code has no  *)
(* exit of its own: the process ends when nothing is left to wait for,     *)
(* which a live worker or an unhandled 'exit' event prevents.              *)
(***************************************************************************)
ExitKinds ==
    { [code |-> "0", signal |-> "none"],
      [code |-> "1", signal |-> "none"],
      [code |-> "none", signal |-> "SIGKILL"] }

\* cluster.fork() calls of the 'exit' handler
Replacements_OnCrash(code, signal) == IF code = "0" THEN 0 ELSE 1

Replacements(code, signal) == 1

InitCluster ==
    /\ IdleEtl /\ IdleOrch /\ IdleSrv /\ IdleSearch /\ IdleHttp /\ IdleAdapter /\ IdleRepo /\ IdleXml
    /\ numWorkers \in 1..MaxWorkers
    /\ started = FALSE /\ live = 0 /\ exitEvents = << >>
    /\ forks = 0 /\ exits = 0 /\ crashed = FALSE

\* for (let i = 0; i < numWorkers; i++) cluster.fork()
StartPrimary ==
    /\ ~started
    /\ started' = TRUE
    /\ forks' = forks + numWorkers
    /\ live' = live + numWorkers
    /\ UNCHANGED <<etlVars, orchVars, srvVars, qVars, httpVars, adVars, repoVars, xmlVars, numWorkers, exitEvents, exits, crashed>>

\* a worker process ends
WorkerExit(kind) ==
    /\ live > 0 /\ exits < MaxExits
    /\ live' = live - 1
    /\ exits' = exits + 1
    /\ exitEvents' = Append(exitEvents, kind)
    /\ crashed' = (crashed \/ kind.code # "0")
    /\ UNCHANGED <<etlVars, orchVars, srvVars, qVars, httpVars, adVars, repoVars, xmlVars, numWorkers, started, forks>>

\* cluster.on('exit', (worker, code, signal) => { ...; cluster.fork() })
OnWorkerExit ==
    /\ exitEvents # << >>
    /\ LET e == Head(exitEvents)
           n == Replacements(e.code, e.signal)
       IN  /\ forks' = forks + n
           /\ live' = live + n
    /\ exitEvents' = Tail(exitEvents)
    /\ UNCHANGED <<etlVars, orchVars, srvVars, qVars, httpVars, adVars, repoVars, xmlVars, numWorkers, started, exits, crashed>>

NextCluster ==
    \/ StartPrimary
    \/ \E kind \in ExitKinds : WorkerExit(kind)
    \/ OnWorkerExit

SpecCluster == InitCluster /\ [][NextCluster]_vars

\* C16: the primary forks numWorkers workers at start and one replacement
\* for every 'exit' event whatever its code or signal; once every event is
\* handled the number of live workers is numWorkers again.
C16_Supervision ==
    /\ [](started => /\ forks = numWorkers + (exits - Len(exitEvents))
                     /\ live + Len(exitEvents) = numWorkers)
    /\ [][\A kind \in ExitKinds :
            (exitEvents # << >> /\ Head(exitEvents) = kind /\ OnWorkerExit)
                => forks' = forks + 1]_vars

C16_Witness ==
    /\ started /\ exits = MaxExits /\ crashed /\ exitEvents = << >>
    /\ live = numWorkers /\ forks = numWorkers + MaxExits

\* every worker forked so far has exited, each with status 0
AllWorkersGone == started /\ live = 0 /\ ~crashed

\* C17: once every worker has exited with status 0 the primary forks no
\* new worker.
C17_PrimaryStops == [][AllWorkersGone => forks' = forks]_vars

(***************************************************************************)
(* Specification SpecSearch: one call of SearchService.search.  Text is a  *)
(* sequence of characters.  An absent field of the query is "undefined"    *)
(* (for term: hasTerm = FALSE).                                            *)
(***************************************************************************)
TermChars == {" ", "B"}

Terms == UNION {[1..n -> TermChars] : n \in 0..MaxTermLen}

Techniques == {"undefined", "native", "optimized", "fuzzy"}

Modes == {"undefined", "standard", "ai"}

Queries ==
    [hasTerm : {TRUE}, term : Terms, technique : Techniques, mode : Modes,
     state : {"", "NSW"}, page : 1..MaxPage, limit : 1..MaxLimit]
    \cup [hasTerm : {FALSE}, term : {<< >>}, technique : Techniques, mode : Modes,
          state : {"", "NSW"}, page : 1..MaxPage, limit : 1..MaxLimit]

\* rows of businesses: id, entity_name, state
BusinessRows ==
    { [id |-> 1, entity_name |-> <<"a", "b">>, state |-> "NSW"],
      [id |-> 2, entity_name |-> <<"b", " ", "a">>, state |-> "VIC"],
      [id |-> 3, entity_name |-> <<"a", " ", "b", "a">>, state |-> "NSW"] }

Lower(t) == [i \in 1..Len(t) |-> IF t[i] = "B" THEN "b" ELSE t[i]]

\* String.prototype.trim
Trim_None(t) == t

Trim(t) ==
    LET idx == {i \in 1..Len(t) : t[i] # " "}
    IN  IF idx = {} THEN << >>
        ELSE SubSeq(t, CHOOSE i \in idx : \A j \in idx : i <= j,
                       CHOOSE i \in idx : \A j \in idx : j <= i)

\* term.split(/\s+/).filter(Boolean)
RECURSIVE SplitFrom(_, _, _)
SplitFrom(t, i, word) ==
    IF i > Len(t) THEN (IF word = << >> THEN << >> ELSE <<word>>)
    ELSE IF t[i] = " "
         THEN (IF word = << >> THEN << >> ELSE <<word>>) \o SplitFrom(t, i + 1, << >>)
         ELSE SplitFrom(t, i + 1, Append(word, t[i]))

Words(t) == SplitFrom(t, 1, << >>)

\* the words of the tsquery, the last one a prefix; << >> is ''
buildTsQuery(term) == Words(Trim(term))

IsPrefix(p, w) == Len(p) <= Len(w) /\ SubSeq(w, 1, Len(p)) = p

\* entity_name ILIKE '%term%'
ILike(name, term) == HasPhrase(Lower(name), Lower(term))

\* search_vector @@ to_tsquery(words joined by &, last word with :*)
TsMatch(name, ts) ==
    LET vec == SeqToSet(Words(Lower(name)))
        q == [i \in 1..Len(ts) |-> Lower(ts[i])]
    IN  /\ \A i \in 1..Len(q) - 1 : q[i] \in vec
        /\ \E w \in vec : IsPrefix(q[Len(q)], w)

\* applyFilters: a filter that is '' or absent is not applied
applyFilters(row, base) == base.state # "" => row.state = base.state

buildSearchQuery(trimmedTerm, q) ==
    [pred |-> IF Len(trimmedTerm) > 0 THEN "ilike" ELSE "none",
     arg |-> trimmedTerm, state |-> q.state]

buildFtsSearchQuery(tsQuery, q) == [pred |-> "fts", arg |-> tsQuery, state |-> q.state]

\* the rows a base query selects
Matches(tbl, base) ==
    {row \in tbl :
        /\ CASE base.pred = "ilike" -> ILike(row.entity_name, base.arg)
             [] base.pred = "fts" -> TsMatch(row.entity_name, base.arg)
             [] OTHER -> TRUE
        /\ applyFilters(row, base)}

CharRank(c) == CASE c = " " -> 0 [] c = "a" -> 1 [] OTHER -> 2

RECURSIVE NameLess(_, _)
NameLess(a, b) ==
    IF a = << >> THEN b # << >>
    ELSE IF b = << >> THEN FALSE
    ELSE IF CharRank(Head(a)) # CharRank(Head(b)) THEN CharRank(Head(a)) < CharRank(Head(b))
    ELSE NameLess(Tail(a), Tail(b))

\* ORDER BY entity_name ASC
RECURSIVE OrderByName(_)
OrderByName(rows) ==
    IF rows = {} THEN << >>
    ELSE LET first == CHOOSE r \in rows :
                         \A o \in rows \ {r} : NameLess(r.entity_name, o.entity_name)
         IN  <<first>> \o OrderByName(rows \ {first})

Limit(sq, n) == SubSeq(sq, 1, Min(n, Len(sq)))

Offset(sq, n) == SubSeq(sq, Min(n, Len(sq)) + 1, Len(sq))

Ceil(a, b) == (a + b - 1) \div b

\* the capped subquery: SELECT 1 ... ORDER BY entity_name LIMIT maxCandidates
CappedCount_Uncapped(rows, cap) == Len(rows)

CappedCount(rows, cap) == Len(Limit(rows, cap))

runPaginatedSearch(tbl, base, q, cap) ==
    LET offset == (q.page - 1) * q.limit
        ordered == OrderByName(Matches(tbl, base))
        total == CappedCount(ordered, cap)
        rows == Limit(Offset(ordered, offset), q.limit)
    IN  [kind |-> "ok",
         data |-> [i \in 1..Len(rows) |-> rows[i].id],
         page |-> q.page, limit |-> q.limit,
         total |-> total, totalPages |-> Ceil(total, q.limit)]

\* what a repository method hands back: the base query it built and the page
findWithFilters(tbl, q, cap) ==
    LET base == buildSearchQuery(<< >>, q)
    IN  [base |-> base, result |-> runPaginatedSearch(tbl, base, q, cap)]

\* !query.term || query.term.trim().length === 0
Blank(q) == ~q.hasTerm \/ Trim(q.term) = << >>

searchNative(tbl, q, cap) ==
    IF Blank(q) THEN findWithFilters(tbl, q, cap)
    ELSE LET base == buildSearchQuery(Trim(q.term), q)
         IN  [base |-> base, result |-> runPaginatedSearch(tbl, base, q, cap)]

searchOptimized(tbl, q, cap) ==
    IF Blank(q) \/ buildTsQuery(Trim(q.term)) = << >> THEN findWithFilters(tbl, q, cap)
    ELSE LET base == buildFtsSearchQuery(buildTsQuery(Trim(q.term)), q)
         IN  [base |-> base, result |-> runPaginatedSearch(tbl, base, q, cap)]

\* NativeSearchStrategy.execute / OptimizedSearchStrategy.execute
NativeExecute(tbl, q, cap) ==
    IF ~Blank(q)
    THEN [calls |-> <<"searchNative">>] @@ searchNative(tbl, q, cap)
    ELSE [calls |-> <<"findWithFilters">>] @@ findWithFilters(tbl, q, cap)

OptimizedExecute(tbl, q, cap) ==
    IF ~Blank(q)
    THEN [calls |-> <<"searchOptimized">>] @@ searchOptimized(tbl, q, cap)
    ELSE [calls |-> <<"findWithFilters">>] @@ findWithFilters(tbl, q, cap)

\* SearchStrategyFactory.create: the strategy, or the AppError it throws
create_ModeIgnored(q) ==
    CASE q.technique = "optimized" -> [kind |-> "strategy", name |-> "optimized"]
      [] q.technique \in {"native", "undefined"} -> [kind |-> "strategy", name |-> "native"]
      [] OTHER -> [kind |-> "error", status |-> 400,
                   message |-> <<"Unknown search technique: ", q.technique>>]

create(q) ==
    IF q.mode = "ai"
    THEN [kind |-> "error", status |-> 501,
          message |-> <<"AI search is not yet configured">>]
    ELSE LET technique == IF q.technique = "undefined" THEN "native" ELSE q.technique
         IN  CASE technique = "optimized" -> [kind |-> "strategy", name |-> "optimized"]
               [] technique = "native" -> [kind |-> "strategy", name |-> "native"]
               [] OTHER -> [kind |-> "error", status |-> 400,
                            message |-> <<"Unknown search technique: ", technique>>]

InitSearch ==
    /\ IdleEtl /\ IdleOrch /\ IdleSrv /\ IdleCluster /\ IdleHttp /\ IdleAdapter /\ IdleRepo /\ IdleXml
    /\ table \in SUBSET BusinessRows
    /\ maxCandidates \in 1..MaxCap
    /\ query = NoQuery /\ baseQuery = NoBase
    /\ repoCalls = << >> /\ response = [kind |-> "none"]

\* SearchService.search(query)
Search(q) ==
    /\ response.kind = "none"
    /\ query' = q
    /\ LET strategy == create(q)
       IN  IF strategy.kind = "error"
           THEN /\ response' = strategy
                /\ UNCHANGED <<repoCalls, baseQuery>>
           ELSE LET out == IF strategy.name = "optimized"
                           THEN OptimizedExecute(table, q, maxCandidates)
                           ELSE NativeExecute(table, q, maxCandidates)
                IN  /\ response' = out.result
                    /\ repoCalls' = out.calls
                    /\ baseQuery' = out.base
    /\ UNCHANGED <<etlVars, orchVars, srvVars, clVars, httpVars, adVars, repoVars, xmlVars, table, maxCandidates>>

NextSearch == \E q \in Queries : Search(q)

SpecSearch == InitSearch /\ [][NextSearch]_vars

Answered == response.kind # "none"

BlankTerm(q) == ~q.hasTerm \/ \A i \in 1..Len(q.term) : q.term[i] = " "

\* C19: with a term that is absent, empty or white space only, the native
\* and the optimized path return exactly findWithFilters(query), and the
\* base query carries neither the ILIKE nor the token predicate.
C19_EmptyTerm ==
    (Answered /\ response.kind = "ok" /\ BlankTerm(query)) =>
        /\ baseQuery = [pred |-> "none", arg |-> << >>, state |-> query.state]
        /\ response = findWithFilters(table, query, maxCandidates).result
        /\ Len(response.data) =
             Min(query.limit,
                 Cardinality({r \in table : query.state # "" => r.state = query.state})
                    - Min((query.page - 1) * query.limit,
                          Cardinality({r \in table : query.state # "" => r.state = query.state})))

C19_Witness ==
    /\ Answered /\ response.kind = "ok"
    /\ query.hasTerm /\ query.term = <<" ">>
    /\ query.technique = "optimized" /\ query.state = ""
    /\ table = BusinessRows /\ Len(response.data) > 0
    /\ baseQuery.pred = "none"

\* C20: for a search whose match set has size s the reported total is
\* min(s, maxCandidates), totalPages is ceil(total / limit), and the page
\* holds at most limit rows.
C20_CandidateCap ==
    (Answered /\ response.kind = "ok") =>
        LET s == Cardinality(Matches(table, baseQuery))
        IN  /\ response.total = Min(s, maxCandidates)
            /\ response.totalPages * query.limit >= response.total
            /\ (response.totalPages - 1) * query.limit < response.total
            /\ response.totalPages >= 0
            /\ Len(response.data) <= query.limit

C20_Witness ==
    /\ Answered /\ response.kind = "ok"
    /\ Cardinality(Matches(table, baseQuery)) > maxCandidates
    /\ response.total = maxCandidates
    /\ baseQuery.pred = "ilike"
    /\ query.limit < response.total /\ response.totalPages > 1
    /\ Len(response.data) = query.limit

(***************************************************************************)
(* Specification SpecHttp: one request at the Express boundary.  A query   *)
(* parameter is absent (defined = FALSE) or a string, which is a sequence  *)
(* of characters.  A JavaScript number is a record: k = "fin" with its     *)
(* value v, "big" for a finite integer beyond the values counted here,     *)
(* "inf" and "ninf" for the infinities, "nan" for NaN.                     *)
(***************************************************************************)
Undef == [defined |-> FALSE, text |-> << >>]

Str(t) == [defined |-> TRUE, text |-> t]

Num(n) == [k |-> "fin", v |-> n]

NaN == [k |-> "nan", v |-> 0]

DEFAULT_PAGE_SIZE == 20

MAX_PAGE_SIZE == 100

\* decimal digits of Number.MAX_VALUE (1.79e308): a longer digit string
\* converts to Infinity
MaxValueDigits == 309

\* digits TLC's integers hold exactly
ExactDigits == 9

DigitChars == {"0", "1", "2", "3", "4", "5", "6", "7", "8", "9"}

DigitVal(c) ==
    CASE c = "0" -> 0 [] c = "1" -> 1 [] c = "2" -> 2 [] c = "3" -> 3 [] c = "4" -> 4
      [] c = "5" -> 5 [] c = "6" -> 6 [] c = "7" -> 7 [] c = "8" -> 8 [] OTHER -> 9

\* t without its longest prefix of characters of the set cs
DropWhile(t, cs) ==
    LET stop == {i \in 1..Len(t) : t[i] \notin cs}
    IN  IF stop = {} THEN << >>
        ELSE SubSeq(t, CHOOSE i \in stop : \A j \in stop : i <= j, Len(t))

\* the longest prefix of t made of digits
DigitPrefix(t) == SubSeq(t, 1, Len(t) - Len(DropWhile(t, DigitChars)))

DropZeros(t) == DropWhile(t, {"0"})

RECURSIVE DigitsValue(_, _)
DigitsValue(t, acc) ==
    IF t = << >> THEN acc ELSE DigitsValue(Tail(t), 10 * acc + DigitVal(Head(t)))

DropSpaces(t) == DropWhile(t, {" "})

\* parseInt(p, 10): white space, a sign, then the digits up to the first
\* other character; NaN without a digit.  The default of the destructuring
\* has replaced an absent parameter before parseInt is called.
parseInt(t) ==
    LET u == DropSpaces(t)
        neg == u # << >> /\ Head(u) = "-"
        body == IF u # << >> /\ Head(u) \in {"-", "+"} THEN Tail(u) ELSE u
        digits == DigitPrefix(body)
        sig == DropZeros(digits)
    IN  IF digits = << >> THEN NaN
        ELSE IF Len(sig) > MaxValueDigits THEN [k |-> IF neg THEN "ninf" ELSE "inf", v |-> 0]
        ELSE IF Len(sig) > ExactDigits THEN [k |-> IF neg THEN "nbig" ELSE "big", v |-> 0]
        ELSE Num(IF neg THEN 0 - DigitsValue(sig, 0) ELSE DigitsValue(sig, 0))

\* x || d for numbers: NaN and 0 are falsy
OrElse(x, d) == IF x.k = "nan" \/ (x.k = "fin" /\ x.v = 0) THEN Num(d) ELSE x

\* Math.max(n, x) and Math.min(n, x) for a small integer n and x not NaN
MathMax(n, x) ==
    CASE x.k \in {"inf", "big"} -> x
      [] x.k \in {"ninf", "nbig"} -> Num(n)
      [] OTHER -> IF x.v > n THEN x ELSE Num(n)

MathMin(n, x) ==
    CASE x.k \in {"ninf", "nbig"} -> x
      [] x.k \in {"inf", "big"} -> Num(n)
      [] OTHER -> IF x.v < n THEN x ELSE Num(n)

\* p || undefined for a string parameter
OrUndefined(p) == IF p.defined /\ p.text # << >> THEN p ELSE Undef

\* p = 'default' in the destructuring of req.query
WithDefault(p, d) == IF p.defined THEN p ELSE Str(d)

pageNum(page) == MathMax(1, OrElse(parseInt(WithDefault(page, <<"1">>).text), 1))

limitNum(limit) ==
    MathMin(MAX_PAGE_SIZE,
            MathMax(1, OrElse(parseInt(WithDefault(limit, <<"2", "0">>).text),
                              DEFAULT_PAGE_SIZE)))

\* the values of the page and limit parameters tried
RawNumbers ==
    { Undef, Str(<< >>), Str(<<"x">>), Str(<<"0">>), Str(<<"-", "5">>), Str(<<"3">>),
      Str(<<"1", "0", "0">>), Str(<<"1", "0", "1">>), Str(<<"7", "x">>),
      Str([i \in 1..MaxValueDigits + 1 |-> "9"]) }

RawStrings == {Undef, Str(<< >>), Str(<<"B">>)}

RawSearches ==
    [q : RawStrings, state : RawStrings, page : RawNumbers, limit : RawNumbers,
     mode : {Undef, Str(<<"ai">>)}, technique : {Undef}]

\* an error object: instanceof AppError, statusCode, isOperational, message
AppErrors ==
    [isAppError : {TRUE}, statusCode : {400, 404, 500, 501}, isOperational : BOOLEAN,
     message : {<<"m1">>, <<"m2">>}]

PlainErrors ==
    [isAppError : {FALSE}, statusCode : {0}, isOperational : {FALSE},
     message : {<<"m1">>, <<"m2">>}]

HttpErrors == AppErrors \cup PlainErrors

AppError(message, statusCode) ==
    [isAppError |-> TRUE, statusCode |-> statusCode, isOperational |-> TRUE,
     message |-> message]

\* errorHandler(err, req, res, next)
errorHandler(err) ==
    IF err.isAppError
    THEN [kind |-> "sent", status |-> err.statusCode,
          body |-> [status |-> "error", message |-> err.message]]
    ELSE [kind |-> "sent", status |-> 500,
          body |-> [status |-> "error", message |-> <<"Internal server error">>]]

\* what SearchService.search does with the query it is passed
SearchOutcomes(q) ==
    IF q.mode = Str(<<"ai">>)
    THEN {[kind |-> "threw", err |-> AppError(<<"AI search is not yet configured">>, 501)]}
    ELSE {[kind |-> "returned"],
          [kind |-> "threw",
           err |-> [isAppError |-> FALSE, statusCode |-> 0, isOperational |-> FALSE,
                    message |-> <<"m1">>]]}

\* the store after doFlushWithTrx has committed the batch
Committed(s, batch) ==
    LET w == UpsertRows(s, businessRowsOf(batch))
        abns == {n.abn : n \in SeqToSet(allNamesOf(batch))}
        idRows == SelectIds(w, abns)
    IN  IF Len(allNamesOf(batch)) = 0 THEN w
        ELSE InsertNames(DeleteNames(w, {r.id : r \in idRows}), nameRowsOf(batch, idRows))

\* the :abn path parameter
AbnParams == Abns \cup {"Z"}

QueryTimes == {0, 3}

NullBusiness == [found |-> FALSE, abn |-> "", val |-> 0, businessNames |-> EmptyBag]

\* PostgresBusinessRepository.findByAbn: the row of the abn with its names
\* (toDomain), or null
findByAbn(s, abn, ms) ==
    IF abn \in Abns /\ s.biz[abn].id # 0
    THEN [business |-> [found |-> TRUE, abn |-> abn, val |-> s.biz[abn].val,
                        businessNames |-> StoredNames(s, abn)],
          queryTimeMs |-> ms]
    ELSE [business |-> NullBusiness, queryTimeMs |-> ms]

NotFoundError(resource, identifier) == AppError(<<resource, " not found: ", identifier>>, 404)

\* SearchService.findByAbn
serviceFindByAbn_NoCheck(found, abn) ==
    [kind |-> "returned", business |-> found.business, queryTimeMs |-> found.queryTimeMs]

serviceFindByAbn(found, abn) ==
    IF ~found.business.found
    THEN [kind |-> "threw", err |-> NotFoundError("Business", abn)]
    ELSE [kind |-> "returned", business |-> found.business,
          queryTimeMs |-> found.queryTimeMs]

InitHttp ==
    /\ IdleEtl /\ IdleOrch /\ IdleSrv /\ IdleCluster /\ IdleSearch /\ IdleHttp
    /\ IdleAdapter /\ IdleRepo /\ IdleXml

\* BusinessController.search
HttpSearch(raw) ==
    /\ httpRes.kind = "none"
    /\ httpReq' = [route |-> "search", raw |-> raw]
    /\ LET q == [term |-> OrUndefined(raw.q), state |-> OrUndefined(raw.state),
                 page |-> pageNum(raw.page), limit |-> limitNum(raw.limit),
                 mode |-> WithDefault(raw.mode, <<"standard">>),
                 technique |-> WithDefault(raw.technique, <<"native">>)]
       IN  /\ passed' = [call |-> "search", query |-> q]
           /\ \E out \in SearchOutcomes(q) :
                /\ outcome' = out
                /\ httpRes' = IF out.kind = "returned"
                              THEN [kind |-> "sent", status |-> 200,
                                    body |-> [status |-> "success"]]
                              ELSE errorHandler(out.err)
    /\ UNCHANGED <<etlVars, orchVars, srvVars, clVars, qVars, adVars, repoVars, xmlVars>>

\* BusinessController.findByAbn
HttpFindByAbn(abn, ms) ==
    /\ httpRes.kind = "none"
    /\ httpReq' = [route |-> "findByAbn", abn |-> abn]
    /\ LET found == findByAbn(db, abn, ms)
           out == serviceFindByAbn(found, abn)
       IN  /\ passed' = [call |-> "findByAbn", abn |-> abn, found |-> found]
           /\ outcome' = out
           /\ httpRes' = IF out.kind = "returned"
                         THEN [kind |-> "sent", status |-> 200,
                               body |-> [status |-> "success", data |-> out.business,
                                         meta |-> [queryTimeMs |-> out.queryTimeMs]]]
                         ELSE errorHandler(out.err)
    /\ UNCHANGED <<etlVars, orchVars, srvVars, clVars, qVars, adVars, repoVars, xmlVars>>

\* an ingestion commits a batch of one record before the request arrives
Ingested(entity) ==
    /\ httpRes.kind = "none"
    /\ db' = Committed(db, <<entity>>)
    /\ db' # db
    /\ UNCHANGED <<cfgVars, paramVars, appVars, buffer, totalInserted, flushes, poolClosed,
                   log, faults, adds, ingestVars, workerVars>>

\* a route or middleware throws, or its promise rejects: Express hands the
\* error to errorHandler
RouteThrows(err) ==
    /\ httpRes.kind = "none"
    /\ httpReq' = [route |-> "other"]
    /\ outcome' = [kind |-> "threw", err |-> err]
    /\ httpRes' = errorHandler(err)
    /\ UNCHANGED <<etlVars, orchVars, srvVars, clVars, qVars, adVars, repoVars, xmlVars, passed>>

NextHttp ==
    \/ \E raw \in RawSearches : HttpSearch(raw)
    \/ \E err \in HttpErrors : RouteThrows(err)
    \/ \E abn \in AbnParams, ms \in QueryTimes : HttpFindByAbn(abn, ms)
    \/ \E entity \in DocEntities : Ingested(entity)

SpecHttp == InitHttp /\ [][NextHttp]_vars

IsInteger(n) == n.k \in {"fin", "big", "nbig"}

\* C21: whatever the page and limit parameters are, the query passed to the
\* search service has an integer page >= 1 (1 by default) and an integer
\* limit in 1..100 (20 by default), and an absent or empty string parameter
\* is passed as undefined.
C21_Normalized ==
    passed.call = "search" =>
        LET q == passed.query
            raw == httpReq.raw
        IN  /\ IsInteger(q.page) /\ (q.page.k = "fin" => q.page.v >= 1) /\ q.page.k # "nbig"
            /\ q.limit.k = "fin" /\ q.limit.v >= 1 /\ q.limit.v <= 100
            /\ raw.page \in {Undef, Str(<< >>)} => q.page = Num(1)
            /\ raw.limit \in {Undef, Str(<< >>)} => q.limit = Num(20)
            /\ raw.q \in {Undef, Str(<< >>)} => q.term = Undef
            /\ raw.state \in {Undef, Str(<< >>)} => q.state = Undef

\* apart from a page that converts to Infinity the normalization is as stated
FinitePagesNormalized ==
    (passed.call = "search" /\ passed.query.page.k # "inf") => C21_Normalized

\* C22: findByAbn on an abn without a business row fails with a not-found
\* error of status 404 and message 'Business not found: <abn>'; on a hit it
\* returns the business with its names and the repository's queryTimeMs; a
\* null business is never returned to the controller.
C22_FindByAbn ==
    httpReq.route = "findByAbn" =>
        LET abn == httpReq.abn
            hit == abn \in Abns /\ db.biz[abn].id # 0
        IN  /\ ~hit =>
                /\ outcome.kind = "threw"
                /\ outcome.err.isAppError /\ outcome.err.statusCode = 404
                /\ outcome.err.message = <<"Business", " not found: ", abn>>
                /\ httpRes.status = 404 /\ httpRes.body.message = outcome.err.message
            /\ hit =>
                /\ outcome.kind = "returned"
                /\ outcome.business.abn = abn /\ outcome.business.val = db.biz[abn].val
                /\ outcome.business.businessNames = StoredNames(db, abn)
                /\ outcome.queryTimeMs = passed.found.queryTimeMs
                /\ httpRes.status = 200
            /\ outcome.kind = "returned" => outcome.business.found

C22_Witness ==
    /\ httpReq.route = "findByAbn" /\ httpReq.abn = "Y"
    /\ db.biz["X"].id # 0 /\ db.biz["Y"].id = 0
    /\ outcome.kind = "threw" /\ httpRes.status = 404

InternalServerError ==
    [kind |-> "sent", status |-> 500,
     body |-> [status |-> "error", message |-> <<"Internal server error">>]]

\* C23: an operational error is answered with its own status code and
\* {status: 'error', message: its message}; any other error with 500 and
\* the literal 'Internal server error'.
C23_ErrorMapping ==
    outcome.kind = "threw" =>
        httpRes = IF outcome.err.isOperational
                  THEN [kind |-> "sent", status |-> outcome.err.statusCode,
                        body |-> [status |-> "error", message |-> outcome.err.message]]
                  ELSE InternalServerError

\* the mapping is as stated for the errors whose flag agrees with their class
MapperOnFlaggedClass ==
    (outcome.kind = "threw" /\ outcome.err.isOperational = outcome.err.isAppError)
        => C23_ErrorMapping

\* C24: the mapper decides by the operational flag: the message of a
\* non-operational error, an AppError built with isOperational = false
\* included, is not in the response body, and all non-operational errors
\* get the same response.
C24_FlagDecides ==
    (outcome.kind = "threw" /\ ~outcome.err.isOperational) =>
        /\ httpRes.body.message # outcome.err.message
        /\ \A e2 \in HttpErrors : ~e2.isOperational => errorHandler(e2) = httpRes

(***************************************************************************)
(* XmlDataSourceAdapter: one RawAbrRecord, as the SAX handlers of the      *)
(* worker fill it, normalized to a Business.  Strings are sequences of     *)
(* characters; null is Undef.                                              *)
(***************************************************************************)
Space == <<" ">>

UnknownEntity == <<"Unknown Entity">>

SentinelDate == <<"1", "9", "0", "0", "0", "1", "0", "1">>

\* Array.prototype.join: null and undefined elements count as ''
RECURSIVE Join(_, _)
Join(list, sep) ==
    IF list = << >> THEN << >>
    ELSE IF Len(list) = 1 THEN Head(list).text
    ELSE Head(list).text \o sep \o Join(Tail(list), sep)

\* s || null
OrNull(t) == IF t = << >> THEN Undef ELSE Str(t)

Truthy(v) == v.defined /\ v.text # << >>

filterBoolean_KeepAll(list) == list

\* .filter(Boolean)
filterBoolean(list) == SelectSeq(list, Truthy)

NullDate == [kind |-> "null"]

InvalidDate == [kind |-> "invalid"]

DateOf(y, m, d) == [day |-> d, kind |-> "date", month |-> m, year |-> y]

IsLeap(y) == (y % 4 = 0 /\ y % 100 # 0) \/ y % 400 = 0

DaysIn(y, m) ==
    IF m = 2 THEN (IF IsLeap(y) THEN 29 ELSE 28)
    ELSE IF m \in {4, 6, 9, 11} THEN 30 ELSE 31

AllDigits(t) == \A i \in 1..Len(t) : t[i] \in DigitChars

\* new Date('YYYY-MM-DD'): the date; Invalid Date for a field that is not
\* digits, a month outside 01..12 or a day outside 01..31; for a day of
\* 29..31 that the month does not have, the engine either carries the day
\* into the next month (V8) or gives Invalid Date (the date-time string
\* format of ECMAScript)
NewDate(year, month, day, carries) ==
    IF ~(AllDigits(year) /\ AllDigits(month) /\ AllDigits(day)) THEN InvalidDate
    ELSE LET y == DigitsValue(year, 0)
             m == DigitsValue(month, 0)
             d == DigitsValue(day, 0)
         IN  IF m \notin 1..12 \/ d \notin 1..31 THEN InvalidDate
             ELSE IF d <= DaysIn(y, m) THEN DateOf(y, m, d)
             ELSE IF carries THEN DateOf(y, m + 1, d - DaysIn(y, m))
             ELSE InvalidDate

parseAbrDate(value, carries) ==
    IF ~Truthy(value) \/ Len(value.text) # 8 \/ value.text = SentinelDate THEN NullDate
    ELSE NewDate(SubSeq(value.text, 1, 4), SubSeq(value.text, 5, 6),
                 SubSeq(value.text, 7, 8), carries)

normalize(r, carries) ==
    LET isIndividual == r.entityTypeInd = "IND"
        givenName == IF isIndividual THEN OrNull(Join(r.givenNames, Space)) ELSE Undef
        familyName == IF isIndividual THEN r.familyName ELSE Undef
        entityName ==
            IF isIndividual THEN Join(filterBoolean(<<givenName, familyName>>), Space)
            ELSE IF Truthy(r.mainEntityName) THEN r.mainEntityName.text
            ELSE UnknownEntity
        businessNames ==
            [i \in 1..Len(r.otherNames) |->
                [nameText |-> r.otherNames[i].text, nameType |-> r.otherNames[i].type]]
    IN  [kind |-> "business", abn |-> r.abn,
         abnStatusFrom |-> parseAbrDate(r.abnStatusFromDate, carries),
         entityTypeCode |-> r.entityTypeInd,
         entityName |-> entityName, givenName |-> givenName, familyName |-> familyName,
         gstFromDate |-> parseAbrDate(r.gstFromDate, carries),
         recordLastUpdated |-> parseAbrDate(r.recordLastUpdatedDate, carries),
         businessNames |-> businessNames]

\* the records the closetag handlers can build: a given name is pushed
\* only when its text is not empty; the other texts are trimmed and may be
\* empty; the dates are attribute values, '' when the attribute is missing
GivenNameLists ==
    {<< >>, <<Str(<<"J">>)>>, <<Str(<<"M">>), Str(<<"J">>)>>}

FamilyNames == {Undef, Str(<< >>), Str(<<"D">>)}

MainEntityNames == {Undef, Str(<< >>), Str(<<"V">>)}

OtherNameLists ==
    {<< >>, <<[text |-> <<"T">>, type |-> "TRD"]>>,
     <<[text |-> <<"T">>, type |-> "TRD"], [text |-> <<"B">>, type |-> "BN"]>>}

RawDates ==
    {Str(<< >>),
     Str(<<"2", "0", "2", "4", "0", "6", "0">>),
     Str(SentinelDate),
     Str(<<"2", "0", "2", "4", "0", "6", "0", "5">>),
     Str(<<"2", "0", "2", "4", "1", "3", "0", "5">>),
     Str(<<"2", "0", "2", "4", "0", "6", "3", "1">>),
     Str(<<"2", "0", "2", "4", "0", "6", "x", "5">>)}

RawAbrRecords ==
    [kind : {"raw"}, abn : {"X"}, entityTypeInd : {"IND", "PRV"},
     mainEntityName : MainEntityNames, givenNames : GivenNameLists,
     familyName : FamilyNames, otherNames : OtherNameLists,
     abnStatusFromDate : RawDates, gstFromDate : RawDates \cup {Undef},
     recordLastUpdatedDate : RawDates]

\* handleRecordClose: adapter.normalize(currentRecord)
Normalize(r, carries) ==
    /\ rawRecord' = r
    /\ normalized' = normalize(r, carries)
    /\ UNCHANGED <<etlVars, orchVars, srvVars, clVars, qVars, httpVars, repoVars, xmlVars>>

InitAdapter ==
    /\ IdleEtl /\ IdleOrch /\ IdleSrv /\ IdleCluster /\ IdleSearch /\ IdleHttp
    /\ IdleAdapter /\ IdleRepo /\ IdleXml

\* the adapter keeps no state: one record is followed from the idle adapter
NextAdapter ==
    /\ rawRecord.kind = "none"
    /\ \E r \in RawAbrRecords, carries \in BOOLEAN : Normalize(r, carries)

SpecAdapter == InitAdapter /\ [][NextAdapter]_vars

\* C25: for an IND record givenName is the given names joined by single
\* spaces, null when there are none, familyName is the raw family name and
\* entityName is the two joined by a space with empty parts left out;
\* otherwise both are null and entityName is the main-entity name, or
\* 'Unknown Entity' when that is absent (null or empty); otherNames map
\* one-to-one and in order to businessNames.
C25_Names ==
    rawRecord.kind = "raw" =>
        LET r == rawRecord
            b == normalized
            given == IF r.givenNames = << >> THEN << >>
                     ELSE IF Len(r.givenNames) = 1 THEN r.givenNames[1].text
                     ELSE r.givenNames[1].text \o <<" ">> \o r.givenNames[2].text
            family == IF r.familyName.defined THEN r.familyName.text ELSE << >>
        IN  /\ r.entityTypeInd = "IND" =>
                /\ b.givenName = (IF r.givenNames = << >> THEN Undef ELSE Str(given))
                /\ b.familyName = r.familyName
                /\ b.entityName = (IF given = << >> THEN family
                                   ELSE IF family = << >> THEN given
                                   ELSE given \o <<" ">> \o family)
            /\ r.entityTypeInd # "IND" =>
                /\ b.givenName = Undef /\ b.familyName = Undef
                /\ b.entityName = (IF r.mainEntityName \in {Undef, Str(<< >>)}
                                   THEN <<"Unknown Entity">>
                                   ELSE r.mainEntityName.text)
            /\ Len(b.businessNames) = Len(r.otherNames)
            /\ \A i \in 1..Len(r.otherNames) :
                  /\ b.businessNames[i].nameType = r.otherNames[i].type
                  /\ b.businessNames[i].nameText = r.otherNames[i].text

C25_Witness ==
    /\ rawRecord.kind = "raw" /\ rawRecord.entityTypeInd = "IND"
    /\ rawRecord.givenNames = << >> /\ rawRecord.familyName = Str(<<"D">>)
    /\ Len(rawRecord.otherNames) = 2
    /\ normalized.givenName = Undef /\ normalized.entityName = <<"D">>

\* a raw date the adapter is to turn into a date: eight digits, a month of
\* 01..12 and a day the month has, other than the sentinel
DenotesDate(value) ==
    /\ value.defined /\ Len(value.text) = 8 /\ AllDigits(value.text)
    /\ value.text # SentinelDate
    /\ DigitsValue(SubSeq(value.text, 5, 6), 0) \in 1..12
    /\ DigitsValue(SubSeq(value.text, 7, 8), 0) \in
          1..DaysIn(DigitsValue(SubSeq(value.text, 1, 4), 0),
                    DigitsValue(SubSeq(value.text, 5, 6), 0))

DateFields ==
    {<<"abnStatusFromDate", "abnStatusFrom">>, <<"gstFromDate", "gstFromDate">>,
     <<"recordLastUpdatedDate", "recordLastUpdated">>}

\* C26: each of the three dates is null for the sentinel '19000101' and for
\* any other malformed raw string (empty, wrong length, non-digits,
\* impossible month or day), and otherwise the date YYYYMMDD denotes.
C26_Dates ==
    rawRecord.kind = "raw" =>
        \A f \in DateFields :
            LET value == rawRecord[f[1]]
            IN  normalized[f[2]] =
                    IF DenotesDate(value)
                    THEN DateOf(DigitsValue(SubSeq(value.text, 1, 4), 0),
                                DigitsValue(SubSeq(value.text, 5, 6), 0),
                                DigitsValue(SubSeq(value.text, 7, 8), 0))
                    ELSE NullDate

\* the sentinel, the empty string, a string of another length and a string
\* that denotes a date are normalized as stated
DatesOfShortOrValidValues ==
    rawRecord.kind = "raw" =>
        \A f \in DateFields :
            LET value == rawRecord[f[1]]
            IN  /\ (~Truthy(value) \/ Len(value.text) # 8 \/ value.text = SentinelDate)
                      => normalized[f[2]] = NullDate
                /\ DenotesDate(value)
                      => normalized[f[2]] =
                            DateOf(DigitsValue(SubSeq(value.text, 1, 4), 0),
                                   DigitsValue(SubSeq(value.text, 5, 6), 0),
                                   DigitsValue(SubSeq(value.text, 7, 8), 0))

(***************************************************************************)
(* PostgresBusinessRepository.bulkUpsert at production scale: only the     *)
(* number of rows matters (a BusinessRow has BUSINESS_COLS columns, each   *)
(* bound as one value of the insert).                                      *)
(***************************************************************************)
RepoRowCounts == (0..120) \cup {999, 1000, 1001, 4680, 4681, 4682, 5000, 65535}

\* if (rows.length === 0) return 0;
\* await this.db('businesses').insert(rows).onConflict('abn').merge();
\* return rows.length;
BulkUpsert(k) ==
    /\ repoRows' = k
    /\ repoStmts' = IF k = 0 THEN << >> ELSE <<k * BUSINESS_COLS>>
    /\ repoResult' = [kind |-> "returned", value |-> k]
    /\ UNCHANGED <<etlVars, orchVars, srvVars, clVars, qVars, httpVars, adVars, xmlVars>>

InitRepo ==
    /\ IdleEtl /\ IdleOrch /\ IdleSrv /\ IdleCluster /\ IdleSearch /\ IdleHttp
    /\ IdleAdapter /\ IdleRepo /\ IdleXml

\* one call is followed from the idle repository
NextRepo ==
    /\ repoResult.kind = "none"
    /\ \E k \in RepoRowCounts : BulkUpsert(k)

SpecRepo == InitRepo /\ [][NextRepo]_vars

RECURSIVE SumSeq(_)
SumSeq(q) == IF q = << >> THEN 0 ELSE Head(q) + SumSeq(Tail(q))

\* C27: bulkUpsert issues no statement and returns 0 for an empty input;
\* for k >= 1 rows it returns k, and its statements together bind the 14
\* values of each row, every statement strictly fewer than 65,535.
C27_BulkUpsert ==
    repoResult.kind = "returned" =>
        /\ repoRows = 0 => (repoStmts = << >> /\ repoResult.value = 0)
        /\ repoRows >= 1 =>
              /\ repoResult.value = repoRows
              /\ SumSeq(repoStmts) = repoRows * BUSINESS_COLS
              /\ \A i \in 1..Len(repoStmts) : repoStmts[i] < PG_MAX_BIND_PARAMS

\* up to the ceiling of 4,681 rows the call is as stated
BulkUpsertUpToCeiling ==
    (repoResult.kind = "returned" /\ repoRows <= MAX_BUSINESS_ROWS_BY_PARAMS)
        => C27_BulkUpsert

(***************************************************************************)
(* Further claims settled under Spec: pacing, the totalInserted counter    *)
(* and the integrity of the committed store.                               *)
(***************************************************************************)
\* this step ends an attempt of the k-th pending flush with an error, at
\* BEGIN, at a statement or at COMMIT
AttemptEndsInError(k) ==
    /\ k \in 1..Len(flushes)
    /\ flushes[k].st = "trx"
    /\ log' = log
    /\ \/ Len(flushes') < Len(flushes)
       \/ flushes'[k].st # "trx"

\* this step commits the transaction of the k-th pending flush
Commits(k) ==
    /\ k \in 1..Len(flushes)
    /\ flushes[k].st = "trx" /\ flushes[k].pc = "commit"
    /\ db' = flushes[k].work
    /\ log' = Append(log, flushes[k].batch)

\* C28: after a successful flush with flushDelayMs > 0 the run waits
\* flushDelayMs before it ends, and while it waits no queued flush has begun
\* its run; after a failed attempt no pacing delay is taken: the run either
\* ends with the error or backs off retryDelayMs * 2^(attempt-1).
C28_Pacing ==
    /\ [](\A k \in 1..Len(flushes) :
            flushes[k].st = "pacing" =>
                /\ flushDelayMs > 0 /\ flushes[k].wait = flushDelayMs
                /\ \A j \in 1..Len(flushes) : j # k => flushes[j].st = "queued")
    /\ [][\A k \in 1..MaxAdds + 1 :
            (Commits(k) /\ flushDelayMs > 0) =>
                /\ Len(flushes') >= Len(flushes)
                /\ flushes'[k].st = "pacing" /\ flushes'[k].batch = flushes[k].batch]_vars
    /\ [][\A k \in 1..MaxAdds + 1 :
            AttemptEndsInError(k) =>
                \/ /\ Len(flushes') < Len(flushes)
                   /\ \A j \in 1..Len(flushes') : flushes'[j].st # "pacing"
                \/ /\ Len(flushes') >= Len(flushes)
                   /\ flushes'[k].st = "backoff"
                   /\ flushes'[k].wait = 1000 * 2 ^ (flushes[k].attempt - 1)]_vars

\* a run is pacing after its commit while a later flush waits for it
C28_Witness ==
    /\ Len(flushes) >= 2
    /\ flushes[1].st = "pacing" /\ flushes[2].st = "queued"
    /\ Len(log) >= 1

RECURSIVE SumOfSizes(_)
SumOfSizes(batches) ==
    IF batches = << >> THEN 0 ELSE Len(Head(batches)) + SumOfSizes(Tail(batches))

\* C29: totalInserted never decreases, grows by the size of a batch in
\* exactly the steps that commit that batch's transaction, is left alone by
\* a failed attempt and by a retry, and always equals the sum of the sizes
\* of the batches committed so far.
C29_Accounting ==
    /\ [](totalInserted = SumOfSizes(log))
    /\ [][totalInserted' >= totalInserted]_vars
    /\ [][(totalInserted' # totalInserted) <=> (\E k \in 1..MaxAdds + 1 : Commits(k))]_vars
    /\ [][\A k \in 1..MaxAdds + 1 :
            /\ Commits(k) => totalInserted' = totalInserted + Len(flushes[k].batch)
            /\ AttemptEndsInError(k) => totalInserted' = totalInserted
            /\ (k <= Len(flushes) /\ flushes[k].st = "backoff")
                  => totalInserted' = totalInserted]_vars

\* a batch of two records is committed after an attempt has failed
C29_Witness ==
    /\ Len(log) = 1 /\ Len(log[1]) = 2 /\ totalInserted = 2
    /\ faults = 1

Present(s) == {a \in Abns : s.biz[a].id # 0}

CommittedAbns == UNION {{log[i][j].abn : j \in 1..Len(log[i])} : i \in 1..Len(log)}

\* C30: in every state of the committed store (hence whenever the process
\* is killed, the open transaction being rolled back by the server) there
\* is one business row per committed abn, no two rows share an id, and
\* every business_names row references an existing business row.
C30_StoreIntegrity ==
    /\ Present(db) = CommittedAbns
    /\ \A a, b \in Present(db) : a # b => db.biz[a].id # db.biz[b].id
    /\ \A a \in Present(db) : db.biz[a].id < db.nextId
    /\ \A r \in BagToSet(db.names) : \E a \in Present(db) : db.biz[a].id = r.business_id

\* a transaction that has already replaced names is open over a store that
\* holds names, after an earlier attempt failed
C30_Witness ==
    /\ BagToSet(db.names) # {}
    /\ faults = 1
    /\ \E k \in 1..Len(flushes) :
          /\ flushes[k].st = "trx" /\ flushes[k].pc \in {"insert", "commit"}
          /\ flushes[k].work.names # db.names

(***************************************************************************)
(* Specification SpecParser: the SAX handlers of the ETL worker whose      *)
(* close-tag handler awaits add() (opentag, text, closetag,                *)
(* handleRecordClose), tag by tag.  A file is a Transfer element holding   *)
(* ABR elements; the stream delivers it in chunks cut anywhere between two *)
(* parser events.  The parser handles a chunk synchronously; what follows  *)
(* an await in the close-tag handler of an ABR element runs after the      *)
(* chunk: as a microtask when add() only buffered, when the flush settles  *)
(* when add() awaits one.  add() awaits a flush when the record it buffers *)
(* fills the batch.  Texts are the trimmed text nodes the parser emits     *)
(* (sax option trim), so currentText.trim() has nothing left to strip.     *)
(***************************************************************************)
\* ABR elements of one file
MaxXmlRecords == 2

XmlOpen(name, type) == [t |-> "open", name |-> name, type |-> type, text |-> ""]

XmlText(text) == [t |-> "text", name |-> "", type |-> "", text |-> text]

XmlClose(name) == [t |-> "close", name |-> name, type |-> "", text |-> ""]

Element(name, type, body) == <<XmlOpen(name, type)>> \o body \o <<XmlClose(name)>>

\* <context><NonIndividualName type=".."><NonIndividualNameText>text</..></..></..>
NameElement(context, type, text) ==
    Element(context, "",
        Element("NonIndividualName", type,
            Element("NonIndividualNameText", "", <<XmlText(text)>>)))

\* what an ABR element says: its abn ("" when it has no ABN element), the
\* name of its MainEntity ("" when it has none), its OtherEntity and DGR
\* names, and whether it also holds a NonIndividualName under LegalEntity
AbrShapes ==
    { [abn |-> "X", main |-> "M",
       others |-> <<[context |-> "OtherEntity", type |-> "TRD", text |-> "T"]>>,
       stray |-> FALSE],
      [abn |-> "Y", main |-> "N",
       others |-> <<[context |-> "DGR", type |-> "DGR", text |-> "D"]>>,
       stray |-> TRUE],
      [abn |-> "Y", main |-> "", others |-> << >>, stray |-> FALSE],
      [abn |-> "", main |-> "M", others |-> << >>, stray |-> FALSE] }

XmlDocs == UNION {[1..n -> AbrShapes] : n \in 1..MaxXmlRecords}

OthersElements(others) ==
    IF others = << >> THEN << >>
    ELSE NameElement(others[1].context, others[1].type, others[1].text)

AbrElement(a) ==
    Element("ABR", "",
        (IF a.abn = "" THEN << >> ELSE Element("ABN", "", <<XmlText(a.abn)>>))
        \o (IF a.main = "" THEN << >> ELSE NameElement("MainEntity", "", a.main))
        \o (IF a.stray THEN NameElement("LegalEntity", "LGL", "L") ELSE << >>)
        \o OthersElements(a.others))

RECURSIVE AbrElements(_, _)
AbrElements(d, i) == IF i > Len(d) THEN << >> ELSE AbrElement(d[i]) \o AbrElements(d, i + 1)

\* the parser events of a file
XmlEvents(d) == Element("Transfer", "", AbrElements(d, 1))

\* the raw record an ABR element denotes
RawOf(a) ==
    [abn |-> a.abn, mainEntityName |-> a.main,
     otherNames |-> [i \in 1..Len(a.others) |->
                        [type |-> a.others[i].type, text |-> a.others[i].text]]]

\* createEmptyRawRecord()
createEmptyRawRecord == [live |-> TRUE, abn |-> "", mainEntityName |-> "", otherNames |-> << >>]

Pop(stack) == IF stack = << >> THEN << >> ELSE SubSeq(stack, 1, Len(stack) - 1)

FromTop(stack, k) == IF Len(stack) >= k THEN stack[Len(stack) - k + 1] ELSE ""

parentElement(stack) == FromTop(stack, 2)

\* parser.on('opentag')
opentag(p, e) ==
    LET stack == Append(p.stack, e.name)
        rec   == IF e.name = "ABR" THEN createEmptyRawRecord ELSE p.rec
        captures == /\ rec.live /\ e.name = "NonIndividualName"
                    /\ parentElement(stack) \in {"OtherEntity", "DGR"}
    IN  [p EXCEPT !.stack = stack, !.text = "", !.rec = rec,
                  !.otype = IF captures THEN e.type ELSE @]

\* parser.on('text')
text(p, e) == [p EXCEPT !.text = @ \o e.text]

\* the close-tag handler of ABR runs to its await: the stream is paused,
\* handleRecordClose returns a record without abn at once, and hands any
\* other record to add(); the handler's remaining statements are deferred
AbrClose_Always(p, fills) ==
    [p EXCEPT !.paused = TRUE,
              !.handed = Append(@, [abn |-> p.rec.abn,
                                    mainEntityName |-> p.rec.mainEntityName,
                                    otherNames |-> p.rec.otherNames]),
              !.deferred = Append(@, IF fills THEN "flush" ELSE "buffered")]

AbrClose(p, fills) ==
    IF p.rec.abn = ""
    THEN [p EXCEPT !.paused = TRUE, !.deferred = Append(@, "returned")]
    ELSE AbrClose_Always(p, fills)

\* the text of a NonIndividualNameText lands by its grandparent
NameText_MainOnly(rec, stack, otype, txt) ==
    IF parentElement(stack) = "NonIndividualName" /\ FromTop(stack, 3) = "MainEntity"
    THEN [rec EXCEPT !.mainEntityName = txt]
    ELSE rec

NameText(rec, stack, otype, txt) ==
    IF parentElement(stack) # "NonIndividualName" THEN rec
    ELSE IF FromTop(stack, 3) = "MainEntity" THEN [rec EXCEPT !.mainEntityName = txt]
    ELSE IF FromTop(stack, 3) \in {"OtherEntity", "DGR"}
         THEN [rec EXCEPT !.otherNames = Append(@, [type |-> otype, text |-> txt])]
    ELSE rec

\* parser.on('closetag'), up to its first await
closetag(p, e, size) ==
    IF p.rec.live /\ e.name = "ABR"
    THEN AbrClose(p, (Len(p.handed) + 1) % size = 0)
    ELSE LET rec == IF ~p.rec.live THEN p.rec
                    ELSE IF e.name = "ABN" THEN [p.rec EXCEPT !.abn = p.text]
                    ELSE IF e.name = "NonIndividualNameText"
                         THEN NameText(p.rec, p.stack, p.otype, p.text)
                    ELSE p.rec
         IN  [p EXCEPT !.rec = rec, !.stack = Pop(@), !.text = ""]

OnEvent(p, e, size) ==
    IF e.t = "open" THEN opentag(p, e)
    ELSE IF e.t = "text" THEN text(p, e)
    ELSE closetag(p, e, size)

\* the parser handles the events first..last of one chunk
RECURSIVE OnEvents(_, _, _, _, _)
OnEvents(p, evs, first, last, size) ==
    IF first > last THEN p
    ELSE LET q == OnEvent(p, evs[first], size)
         IN  IF q.paused \in BOOLEAN THEN OnEvents(q, evs, first + 1, last, size) ELSE p

\* a suspended ABR close handler continues after add() resolved:
\* processed++, currentRecord = null, then elementStack.pop(), currentText = ''
Continue(p, kind) ==
    [p EXCEPT !.count = IF kind = "returned" THEN @ ELSE @ + 1,
              !.rec = IF kind = "returned" THEN @ ELSE NullRecord,
              !.stack = Pop(@), !.text = "", !.resumed = TRUE]

\* the microtasks after a chunk: every handler whose add() only buffered
RECURSIVE Microtasks(_, _)
Microtasks(p, i) ==
    IF i > Len(p.deferred) THEN p
    ELSE IF p.deferred[i] = "flush" THEN Microtasks(p, i + 1)
    ELSE Microtasks(Continue(p, p.deferred[i]), i + 1)

Flushes(deferred) == Cardinality({i \in 1..Len(deferred) : deferred[i] = "flush"})

ParserState ==
    [stack |-> elementStack, rec |-> openRecord, text |-> currentText,
     otype |-> currentOtherNameType, count |-> closedCount, handed |-> handed,
     deferred |-> << >>, paused |-> FALSE, resumed |-> FALSE]

SetParser(p) ==
    /\ elementStack' = p.stack
    /\ openRecord' = p.rec
    /\ currentText' = p.text
    /\ currentOtherNameType' = p.otype
    /\ closedCount' = p.count
    /\ handed' = p.handed
    /\ pendingCloses' = pendingCloses + Flushes(p.deferred)
    /\ streaming' = IF p.resumed THEN TRUE ELSE IF p.paused THEN FALSE ELSE streaming

InitParser ==
    /\ InitWriter /\ retryAttempts = 1 /\ flushDelayMs = 0
    /\ adds = 0 /\ IdleIngest /\ IdleWorker /\ IdleParams
    /\ IdleOrch /\ IdleSrv /\ IdleCluster /\ IdleSearch /\ IdleHttp
    /\ IdleAdapter /\ IdleRepo
    /\ xmlDoc \in XmlDocs /\ xmlPos = 1 /\ elementStack = << >>
    /\ openRecord = NullRecord /\ currentText = "" /\ currentOtherNameType = ""
    /\ closedCount = 0 /\ handed = << >> /\ pendingCloses = 0
    /\ streaming = TRUE /\ xmlPhase = "parsing"

\* the stream delivers the next n parser events in one chunk
XmlChunk(n) ==
    /\ xmlPhase = "parsing" /\ streaming
    /\ xmlPos + n - 1 <= Len(XmlEvents(xmlDoc))
    /\ SetParser(Microtasks(
           OnEvents(ParserState, XmlEvents(xmlDoc), xmlPos, xmlPos + n - 1, batchSize), 1))
    /\ xmlPos' = xmlPos + n
    /\ UNCHANGED <<etlVars, orchVars, srvVars, clVars, qVars, httpVars, adVars, repoVars,
                   xmlDoc, xmlPhase>>

\* the flush an ABR close handler awaits settles: resolved, the handler
\* continues; rejected, it posts an error and rethrows, and the rejection
\* nobody handles ends the worker thread
CloseSettles(ok) ==
    /\ xmlPhase # "crashed" /\ pendingCloses > 0
    /\ pendingCloses' = pendingCloses - 1
    /\ IF ok
       THEN LET p == Continue(ParserState, "flush")
            IN  /\ elementStack' = p.stack /\ openRecord' = p.rec
                /\ currentText' = p.text /\ closedCount' = p.count
                /\ streaming' = TRUE
                /\ UNCHANGED xmlPhase
       ELSE /\ xmlPhase' = "crashed" /\ streaming' = TRUE
            /\ UNCHANGED <<elementStack, openRecord, currentText, closedCount>>
    /\ UNCHANGED <<etlVars, orchVars, srvVars, clVars, qVars, httpVars, adVars, repoVars,
                   xmlDoc, xmlPos, currentOtherNameType, handed>>

\* the stream has delivered the whole file: parser.on('end')
XmlEnd ==
    /\ xmlPhase = "parsing" /\ streaming
    /\ xmlPos = Len(XmlEvents(xmlDoc)) + 1
    /\ xmlPhase' = "ended"
    /\ UNCHANGED <<etlVars, orchVars, srvVars, clVars, qVars, httpVars, adVars, repoVars,
                   xmlDoc, xmlPos, elementStack, openRecord, currentText,
                   currentOtherNameType, closedCount, handed, pendingCloses, streaming>>

NextParser ==
    \/ \E n \in 1..Len(XmlEvents(xmlDoc)) : XmlChunk(n)
    \/ \E ok \in BOOLEAN : CloseSettles(ok)
    \/ XmlEnd

SpecParser == InitParser /\ [][NextParser]_vars

\* every handler of the file has run to its end
AllHandled == xmlPhase = "ended" /\ pendingCloses = 0

RECURSIVE WithAbn(_, _)
WithAbn(d, i) ==
    IF i > Len(d) THEN << >>
    ELSE (IF d[i].abn = "" THEN << >> ELSE <<RawOf(d[i])>>) \o WithAbn(d, i + 1)

\* the elements open after the events 1..last of a file
RECURSIVE OpenAfter(_, _, _, _)
OpenAfter(open, evs, i, last) ==
    IF i > last THEN open
    ELSE LET o == IF evs[i].t = "open" THEN Append(open, evs[i].name)
                  ELSE IF evs[i].t = "close" THEN Pop(open)
                  ELSE open
         IN  IF Len(o) >= 0 THEN OpenAfter(o, evs, i + 1, last) ELSE open

OpenElements == OpenAfter(<< >>, XmlEvents(xmlDoc), 1, xmlPos - 1)

AbnsOfRaw(recs) == [i \in 1..Len(recs) |-> recs[i].abn]

\* C31: a record without abn is neither passed to add() nor counted in
\* processed; every ABR record of the file that has an abn is passed to
\* add() and counted exactly once.
C31_DiscardMalformed ==
    /\ \A i \in 1..Len(handed) : handed[i].abn # ""
    /\ closedCount <= Len(handed)
    /\ AllHandled =>
          /\ AbnsOfRaw(handed) = AbnsOfRaw(WithAbn(xmlDoc, 1))
          /\ closedCount = Len(WithAbn(xmlDoc, 1))

\* the part of C31 about records without abn
MalformedDiscarded ==
    /\ \A i \in 1..Len(handed) : handed[i].abn # ""
    /\ closedCount <= Len(handed)

\* C32: once every handler that has started has finished, elementStack is
\* the sequence of the names of the elements open at that point of the
\* file, wherever the stream cut its chunks.
C32_ElementStack ==
    (xmlPhase # "crashed" /\ pendingCloses = 0) => elementStack = OpenElements

\* what the close of a NonIndividualNameText element must do to the record,
\* by the elements that are open in the file
NameByContext(rec, open, type, txt) ==
    IF FromTop(open, 2) # "NonIndividualName" THEN rec
    ELSE IF FromTop(open, 3) = "MainEntity" THEN [rec EXCEPT !.mainEntityName = txt]
    ELSE IF FromTop(open, 3) \in {"OtherEntity", "DGR"}
         THEN [rec EXCEPT !.otherNames = Append(@, [type |-> type, text |-> txt])]
    ELSE rec

\* C33: the close of a NonIndividualNameText whose parent is
\* NonIndividualName sets the primary name under MainEntity, appends an
\* alternate name with the type attribute of that NonIndividualName under
\* OtherEntity or DGR, and changes nothing elsewhere.  The events of such
\* an element are open NonIndividualName (xmlPos - 3), open
\* NonIndividualNameText, text, close (xmlPos); the step is the chunk that
\* holds the close alone.
C33_Grandparent ==
    [][LET evs == XmlEvents(xmlDoc)
       IN  (/\ xmlPhase = "parsing" /\ xmlPos' = xmlPos + 1
            /\ xmlPos <= Len(evs)
            /\ evs[xmlPos].t = "close" /\ evs[xmlPos].name = "NonIndividualNameText"
            /\ openRecord.live)
           => openRecord' = NameByContext(openRecord, OpenElements,
                                          evs[xmlPos - 3].type, evs[xmlPos - 1].text)]_vars

\* C34: every ABR record with an abn is handed to add() exactly once, in
\* document order, with exactly the fields of its own element.
C34_NoRecordLost ==
    AllHandled => handed = WithAbn(xmlDoc, 1)

(***************************************************************************)
(* Teardown and messages of the worker (SpecWorker).                       *)
(***************************************************************************)
\* the end handler posts done with totalProcessed: processed and
\* totalInserted: stats.totalInserted
PostsDone == teardown # "done" /\ teardown' = "done"

\* C35: when the worker posts done, the totalInserted it reports equals the
\* totalProcessed it reports, and as many records as it counts in
\* totalProcessed have been committed to the store.
C35_CompleteOnDone ==
    [][PostsDone => totalInserted' = processed' /\ SumOfSizes(log') = processed']_vars

\* done and error end a run for the parent; the model posts no others
Terminal(msgs) == {i \in 1..Len(msgs) : msgs[i] \in {"done", "error"}}

\* C38: the worker posts at most one terminal message in a run: no done
\* after an error, no error after done, no second error.
C38_OneTerminalMessage == Cardinality(Terminal(messages)) <= 1

\* C39: once the worker thread has exited, the promise ingest() returned is
\* settled, whatever messages and exit status the thread delivered.
C39_SettledAfterExit == exited => promise.state # "pending"

\* C40: a page holds rows only if it is one of the pages 1..totalPages, and
\* the pages 1..totalPages together are the first total rows of the match
\* set in entity_name order: the page is its slice of those rows, and a
\* page beyond totalPages is empty.
C40_PagesWithinCap ==
    (Answered /\ response.kind = "ok") =>
        LET counted == Limit(OrderByName(Matches(table, baseQuery)), response.total)
            slice == Limit(Offset(counted, (query.page - 1) * query.limit), query.limit)
        IN  /\ response.data = [i \in 1..Len(slice) |-> slice[i].id]
            /\ Len(response.data) > 0 => query.page <= response.totalPages

(***************************************************************************)
(* Further claims settled under Spec: what becomes of a drained batch, and *)
(* the flush mutex after a failed run.                                     *)
(***************************************************************************)
\* this step is a flush() call (the caller's, or the one add() makes) that
\* drains a non-empty buffer
Drains == buffer' = << >> /\ (buffer # << >> \/ adds' # adds)

\* this step settles the k-th pending flush() call
Settles(k) ==
    /\ Len(flushes') < Len(flushes)
    /\ k \in 1..Len(flushes)
    /\ \A j \in 1..Len(flushes') :
          flushes'[j].batch = RemoveAt(flushes, k)[j].batch

\* C36: every batch that flush() drains from the buffer is either committed
\* in full or makes that call reject, whatever retryAttempts >= 0 is: the
\* call that drains the batch stays pending with the whole batch, and a
\* pending call ends only by the commit of its batch or by the error of its
\* last attempt.
C36_NoDroppedBatch ==
    /\ [][Drains =>
            /\ Len(flushes') = Len(flushes) + 1
            /\ Len(flushes'[Len(flushes')].batch) = Len(buffer) + (adds' - adds)
            /\ \A i \in 1..Len(buffer) : flushes'[Len(flushes')].batch[i] = buffer[i]]_vars
    /\ [][\A k \in 1..MaxAdds + 1 :
            (Settles(k) /\ flushes[k].st # "queued") =>
                \/ Commits(k)
                \/ flushes[k].st = "pacing"
                       /\ \E i \in 1..Len(log) : log[i] = flushes[k].batch
                \/ AttemptEndsInError(k)]_vars

\* the run of the k-th pending flush fails for good in this step
FlushFails(k) ==
    /\ Len(flushes') < Len(flushes)
    /\ AttemptEndsInError(k)

\* C37: when a flush run fails, the mutex is released: the failed call alone
\* leaves, every other pending call keeps its batch, and the call that
\* waited for the mutex starts its run; at no time does a pending call wait
\* for a mutex that no run holds.
C37_MutexReleased ==
    /\ [](flushes # << >> => flushes[1].st # "queued")
    /\ [][\A k \in 1..MaxAdds + 1 :
            FlushFails(k) =>
                /\ Len(flushes') = Len(flushes) - 1
                /\ \A j \in 1..Len(flushes') :
                      /\ flushes'[j].batch = RemoveAt(flushes, k)[j].batch
                      /\ flushes'[j].caller = RemoveAt(flushes, k)[j].caller
                /\ (k = 1 /\ Len(flushes') > 0) =>
                      /\ flushes'[1].st = "trx" /\ flushes'[1].pc = "begin"
                      /\ flushes'[1].attempt = 1]_vars

\* two flushes of one record each: the first has failed without a commit,
\* the second has started its run
C37_Witness ==
    /\ retryAttempts >= 1
    /\ batchSize = 1 /\ adds = 2 /\ buffer = << >>
    /\ log = << >> /\ Len(flushes) = 1
    /\ flushes[1].st = "trx" /\ flushes[1].pc = "upsert"
    /\ totalInserted = 0

====
